---- MODULE Spec2Model ----
(***************************************************************************)
(* fsmtool: the FSM parser (fsmparser.py and the copy embedded in          *)
(* fsmtool.py), the YAML syntax tree adapter (yaml_ast_parser.py), the     *)
(* domain model (fsmdomainmodel.py), the YAML, PlantUML and Stateflow      *)
(* generators (fsm2yaml.py, fsm2plantuml.py, fsm2stateflow.py) and the     *)
(* driver (main of fsmtool.py).  Spec is a caller of the parser and the    *)
(* YAML generator, MainSpec a run of the driver, RenderSpec a caller that  *)
(* renders one Fsm several times, TextSpec a caller of the two text        *)
(* functions of the Stateflow generator.                                   *)
(*                                                                         *)
(* A Python scalar is the record [t |-> <type name>, v |-> <the text str() *)
(* gives for it>], a list [t, items], a dict [t, entries] with its <<key,  *)
(* value>> entries in insertion order.  A call's outcome is a record       *)
(* [exc, msg, val]: exc = "none" and the value returned, or the exception  *)
(* class raised and its message.                                           *)
(***************************************************************************)
EXTENDS Integers, Sequences, FiniteSets, TLC

VARIABLES
    impl,           \* which module's FSMParser was instantiated
    current_file,   \* FSMParser.current_file
    formatversion,  \* FSMParser.formatversion
    source,         \* the text handed to the last parse call (as composed by PyYAML);
                    \* in TextSpec the condition or the action list of the call
    outcome,        \* the outcome of the last parse call
    pc,             \* position of the caller ("idle", "parsed", "rendered", "reparsed"),
                    \* in main the statement it is at ("parse", an option, "return", ...)
    indent_level,   \* indent_level of the caller's generator object
    output,         \* the lines the YAML generator wrote to its stream;
                    \* in TextSpec the text the call returned
    gen,            \* the outcome of the last FSM2YAMLGenerator.generate call
    reparsed,       \* the outcome of parsing the generator's output again
    args,           \* main: the namespace argparse returned
    stdout,         \* main: the lines on sys.stdout, each with the step that wrote it
    stderr,         \* main: the lines on sys.stderr
    files,          \* main: the lines in the output file of each generator
    handles,        \* main: the state of the file handle each generator opened
    error,          \* main: the exception the try block raised
    ran,            \* main: the generators whose generate was called, with how each ended
    ret,            \* main: what main() returned
    exit_code,      \* main: the exit status of the process
    generator,      \* a caller's generator instance: its class and its generate calls
    previous        \* the generate calls made for the Fsm, each with what it wrote

libvars == <<impl, current_file, formatversion, source, outcome, pc,
             indent_level, output, gen, reparsed>>
libvars_but_pc == <<impl, current_file, formatversion, source, outcome,
                   indent_level, output, gen, reparsed>>
mainvars == <<args, stdout, stderr, files, handles, error, ran, ret, exit_code>>
rendervars == <<generator, previous>>

vars == <<impl, current_file, formatversion, source, outcome, pc,
          indent_level, output, gen, reparsed,
          args, stdout, stderr, files, handles, error, ran, ret, exit_code,
          generator, previous>>

-----------------------------------------------------------------------------
(* Bounds of the model *)

MaxStates == 2
MaxTransitions == 2

-----------------------------------------------------------------------------
(* Python values *)

PyNone == [t |-> "NoneType", v |-> "None"]
PyStr(s) == [t |-> "str", v |-> s]
PyInt(s) == [t |-> "int", v |-> s]
PyFloat(s) == [t |-> "float", v |-> s]
PyBool(b) == [t |-> "bool", v |-> IF b THEN "True" ELSE "False"]
PyList(items) == [t |-> "list", items |-> items]
PyDict(entries) == [t |-> "dict", entries |-> entries]

PyTrue == PyBool(TRUE)
PyFalse == PyBool(FALSE)

IsScalarValue(x) == x.t \in {"NoneType", "str", "int", "float", "bool"}

\* str(x): the text of a scalar; the repr of a container is not spelled out.
str(x) == IF IsScalarValue(x) THEN PyStr(x.v) ELSE PyStr("<repr>")

\* The number a bool, int or float stands for, as a text key: True == 1 == 1.0.
NumKey(x) ==
    CASE x.t = "bool" -> (IF x.v = "True" THEN "1" ELSE "0")
      [] x.t = "float" /\ x.v = "1.0" -> "1"
      [] x.t = "float" /\ x.v = "0.0" -> "0"
      [] OTHER -> x.v

\* Python's a == b.
PyEq(a, b) ==
    IF a.t \in {"bool", "int", "float"} /\ b.t \in {"bool", "int", "float"}
    THEN NumKey(a) = NumKey(b)
    ELSE a.t = b.t /\ a = b

\* bool(x): None, False, 0, 0.0, "" and empty containers are false.
Truthy(x) ==
    CASE x.t = "NoneType" -> FALSE
      [] x.t \in {"bool", "int", "float"} -> NumKey(x) # "0"
      [] x.t = "str" -> x.v # ""
      [] x.t = "list" -> Len(x.items) > 0
      [] x.t = "dict" -> Len(x.entries) > 0

\* key in d
DictHas(d, key) == \E i \in 1..Len(d.entries) : PyEq(d.entries[i][1], key)

\* d[key], for a key in d
DictItem(d, key) ==
    d.entries[CHOOSE i \in 1..Len(d.entries) : PyEq(d.entries[i][1], key)][2]

\* d.get(key, default)
DictGet(d, key, default) == IF DictHas(d, key) THEN DictItem(d, key) ELSE default

\* d[key] = value: an existing key keeps its place and takes the new value.
DictSet(d, key, value) ==
    IF DictHas(d, key)
    THEN PyDict([i \in 1..Len(d.entries) |->
                    IF PyEq(d.entries[i][1], key) THEN <<d.entries[i][1], value>>
                    ELSE d.entries[i]])
    ELSE PyDict(Append(d.entries, <<key, value>>))

-----------------------------------------------------------------------------
(* Outcomes of calls *)

Ok(x) == [exc |-> "none", msg |-> "", val |-> x]
Raise(e, m) == [exc |-> e, msg |-> m, val |-> PyNone]
Returned(r) == r.exc = "none"

-----------------------------------------------------------------------------
(* yaml_ast_parser.py: PyYAML's composed nodes and the AST built from them.  *)
(* A composed node is a scalar [k, tag, text], a sequence [k, items] or a     *)
(* mapping [k, entries] of <<key node, value node>> tuples.  An AST node is  *)
(* ScalarNode [k, value], SequenceNode [k, elements] or MappingNode          *)
(* [k, pairs], a pair being KeyValuePair [key, value].                       *)

YScalar(tag, text) == [k |-> "scalar", tag |-> tag, text |-> text]
YStr(text) == YScalar("str", text)
YSeq(items) == [k |-> "seq", items |-> items]
YMap(entries) == [k |-> "map", entries |-> entries]

\* The entry of a mapping for a plain key.
Field(key, node) == <<YStr(key), node>>

ScalarNode(value) == [k |-> "scalar", value |-> value]
SequenceNode(elements) == [k |-> "seq", elements |-> elements]
MappingNode(pairs) == [k |-> "map", pairs |-> pairs]
KeyValuePair(key, value) == [key |-> key, value |-> value]
NoNode == [k |-> "None"]

\* The texts line 205 turns into None whatever their tag.
NullTexts == {"null", "Null", "NULL", "~", ""}

\* value.lower() in ('true', 'yes', 'on')
LowerIsTrue(text) ==
    text \in {"true", "True", "TRUE", "yes", "Yes", "YES", "on", "On", "ON"}

\* The int-tagged and float-tagged texts that int() and float() accept, with
\* the text str() gives for the number; on any other text (0x1F, 1:30, .inf)
\* they raise ValueError.
IntTexts == {"0", "1", "2", "3"}
FloatTexts == {"0.1", "0.2", "1.0"}

ScalarConverts(y) ==
    \/ y.tag = "null" \/ y.text \in NullTexts
    \/ y.tag \notin {"int", "float"}
    \/ y.tag = "int" /\ y.text \in IntTexts
    \/ y.tag = "float" /\ y.text \in FloatTexts

\* _build_ast_node on a scalar whose conversion does not raise.
ScalarValue(y) ==
    IF y.tag = "null" \/ y.text \in NullTexts THEN PyNone
    ELSE IF y.tag = "bool" THEN PyBool(LowerIsTrue(y.text))
    ELSE IF y.tag = "int" THEN PyInt(y.text)
    ELSE IF y.tag = "float" THEN PyFloat(y.text)
    ELSE PyStr(y.text)

\* Whether _build_ast raises ValueError somewhere in the tree of y.
RECURSIVE BuildRaises(_)
BuildRaises(y) ==
    CASE y.k = "scalar" -> ~ScalarConverts(y)
      [] y.k = "seq" -> \E i \in 1..Len(y.items) : BuildRaises(y.items[i])
      [] y.k = "map" -> \E i \in 1..Len(y.entries) :
                            BuildRaises(y.entries[i][1]) \/ BuildRaises(y.entries[i][2])

\* _build_ast / _build_ast_node on a tree in which no conversion raises.  A
\* composed node has no anchor attribute, so no AnchorNode is ever built.
RECURSIVE _build_ast_node(_)
_build_ast_node(y) ==
    CASE y.k = "scalar" -> ScalarNode(ScalarValue(y))
      [] y.k = "seq" ->
            SequenceNode([i \in 1..Len(y.items) |-> _build_ast_node(y.items[i])])
      [] y.k = "map" ->
            MappingNode([i \in 1..Len(y.entries) |->
                KeyValuePair(_build_ast_node(y.entries[i][1]),
                             _build_ast_node(y.entries[i][2]))])

\* A source text, as yaml.compose_all reads it: malformed (compose_all raises
\* yaml.YAMLError) or a stream of documents, each its root node.
Malformed == [k |-> "malformed", docs |-> <<>>]
Stream(docs) == [k |-> "stream", docs |-> docs]

StreamNode(documents) == [documents |-> documents]

\* YAMLASTParser.parse_string: the StreamNode (of each document, its root), or
\* the exception compose_all or _build_ast raises.
yaml_parse_string(text) ==
    IF text.k = "malformed" THEN Raise("YAMLError", "could not scan the text")
    ELSE IF \E i \in 1..Len(text.docs) : BuildRaises(text.docs[i])
    THEN Raise("ValueError", "invalid literal")
    ELSE Ok(StreamNode([i \in 1..Len(text.docs) |-> _build_ast_node(text.docs[i])]))

\* YAMLASTParser.parse_file: open() raises FileNotFoundError on a path with
\* no file; file is the file's text, or NoFile.
NoFile == [k |-> "nofile", docs |-> <<>>]
yaml_parse_file(file) ==
    IF file.k = "nofile" THEN Raise("FileNotFoundError", "No such file or directory")
    ELSE yaml_parse_string(file)

-----------------------------------------------------------------------------
(* fsmdomainmodel.py: the dataclasses.  An instance is the record of its     *)
(* fields; the generated __init__ takes the class's fields as keyword        *)
(* arguments, gives an omitted one its default and raises TypeError on a     *)
(* keyword that is no field of the class.                                    *)

FsmTransition ==
    [target_state |-> PyStr("No target state set"),
     condition |-> PyStr("No condition set"),
     priority |-> PyInt("0"),
     on_transition_actions |-> PyNone]

FsmState ==
    [name |-> PyStr("UnnamedState"),
     is_initial |-> PyFalse,
     is_final |-> PyFalse,
     on_entry_actions |-> PyNone,
     do_actions |-> PyNone,
     on_exit_actions |-> PyNone,
     transitions |-> <<>>]

Fsm ==
    [name |-> PyStr("UnnamedFSM"),
     version |-> PyStr("Not set"),
     initial_state |-> PyStr("Not set"),
     states |-> <<>>]

dataclass_init(cls, kwargs) ==
    IF DOMAIN kwargs \subseteq DOMAIN cls
    THEN Ok([f \in DOMAIN cls |-> IF f \in DOMAIN kwargs THEN kwargs[f] ELSE cls[f]])
    ELSE Raise("TypeError", "__init__() got an unexpected keyword argument")

\* obj.field: AttributeError when the instance has no such attribute.
HasAttr(obj, f) == f \in DOMAIN obj

-----------------------------------------------------------------------------
(* FSMParser: fsmparser.py, and the copy of the class in fsmtool.py, which   *)
(* differs from it in the keyword arguments it hands to the dataclasses.     *)

Impls == {"fsmparser", "fsmtool"}

FSMParseError(m) == Raise("FSMParseError", m)

IsScalarNode(n) == n.k = "scalar"
IsSequenceNode(n) == n.k = "seq"
IsMappingNode(n) == n.k = "map"

\* _find_value_by_key: the value of the first pair with that key, or None.
_find_value_by_key(mapping, key) ==
    LET hits == {i \in 1..Len(mapping.pairs) :
                    /\ IsScalarNode(mapping.pairs[i].key)
                    /\ PyEq(mapping.pairs[i].key.value, PyStr(key))}
    IN  IF hits = {} THEN NoNode
        ELSE mapping.pairs[CHOOSE i \in hits : \A j \in hits : i <= j].value

RECURSIVE _node_to_python(_), _mapping_to_dict(_), MappingLoop(_, _, _)

\* _node_to_python
_node_to_python(node) ==
    CASE IsScalarNode(node) -> node.value
      [] IsSequenceNode(node) ->
            PyList([i \in 1..Len(node.elements) |-> _node_to_python(node.elements[i])])
      [] IsMappingNode(node) -> _mapping_to_dict(node)
      [] OTHER -> PyNone

\* The loop of _mapping_to_dict from pair i on: a later pair with the same
\* key overwrites the value of an earlier one.
MappingLoop(pairs, i, result) ==
    IF i > Len(pairs) THEN result
    ELSE MappingLoop(pairs, i + 1,
            IF IsScalarNode(pairs[i].key)
            THEN DictSet(result, pairs[i].key.value, _node_to_python(pairs[i].value))
            ELSE result)

\* _mapping_to_dict
_mapping_to_dict(mapping) == MappingLoop(mapping.pairs, 1, PyDict(<<>>))

Has(data, key) == DictHas(data, PyStr(key))
Get(data, key, default) == DictGet(data, PyStr(key), default)

\* The keyword arguments of FsmTransition(...) in _parse_transition.
TransitionKwargsOfTool(data) ==
    [target_state |-> Get(data, "target_state", PyStr("No target state set")),
     condition |-> Get(data, "condition", PyStr("No condition set")),
     priority |-> Get(data, "priority", PyInt("0")),
     on_transition_actions |-> Get(data, "on_transition", PyList(<<>>))]

TransitionKwargs(data) ==
    [target_state |-> Get(data, "target_state", PyStr("No target state set")),
     condition |-> Get(data, "condition", PyStr("No condition set")),
     description |-> Get(data, "description", PyStr("No description")),
     priority |-> Get(data, "priority", PyInt("0")),
     on_transition_actions |-> Get(data, "on_transition", PyList(<<>>))]

\* _parse_transition
_parse_transition(i, mapping) ==
    LET data == _mapping_to_dict(mapping) IN
    IF ~Has(data, "target_state")
    THEN FSMParseError("Transition must have a 'target_state' field")
    ELSE IF ~Has(data, "condition")
    THEN FSMParseError("Transition must have a 'condition' field")
    ELSE IF ~Has(data, "priority")
    THEN FSMParseError("Transition must have a 'priority' field")
    ELSE dataclass_init(FsmTransition,
            IF i = "fsmtool" THEN TransitionKwargsOfTool(data) ELSE TransitionKwargs(data))

\* The keyword arguments of FsmState(...) in _parse_state.
StateKwargsOfTool(data) ==
    [name |-> Get(data, "name", PyStr("UnnamedState")),
     is_initial |-> Get(data, "is_initial", PyFalse),
     is_final |-> Get(data, "is_final", PyFalse),
     on_entry_actions |-> Get(data, "on_entry", PyList(<<>>)),
     do_actions |-> Get(data, "do", PyList(<<>>)),
     on_exit_actions |-> Get(data, "on_exit", PyList(<<>>)),
     transitions |-> <<>>]

StateKwargs(data) ==
    [name |-> Get(data, "name", PyStr("UnnamedState")),
     description |-> Get(data, "description", PyStr("No description")),
     is_initial |-> Get(data, "is_initial", PyFalse),
     is_final |-> Get(data, "is_final", PyFalse),
     on_entry_actions |-> Get(data, "on_entry", PyList(<<>>)),
     do_actions |-> Get(data, "do", PyList(<<>>)),
     on_exit_actions |-> Get(data, "on_exit", PyList(<<>>)),
     transitions |-> <<>>]

\* The loop over transitions_node.elements from element j on: a MappingNode
\* is parsed and appended to state.transitions, any other element is skipped,
\* and an exception of _parse_transition ends the loop.
RECURSIVE TransitionsLoop(_, _, _, _)
TransitionsLoop(i, elements, j, state) ==
    IF j > Len(elements) THEN Ok(state)
    ELSE IF ~IsMappingNode(elements[j]) THEN TransitionsLoop(i, elements, j + 1, state)
    ELSE LET tr == _parse_transition(i, elements[j]) IN
         IF ~Returned(tr) THEN tr
         ELSE TransitionsLoop(i, elements, j + 1,
                [state EXCEPT !.transitions = Append(@, tr.val)])

\* _parse_state
_parse_state(i, mapping) ==
    LET data == _mapping_to_dict(mapping) IN
    IF ~Has(data, "name")
    THEN FSMParseError("A state must have a 'name' field")
    ELSE LET state == dataclass_init(FsmState,
                        IF i = "fsmtool" THEN StateKwargsOfTool(data) ELSE StateKwargs(data))
             transitions_node == _find_value_by_key(mapping, "transitions")
         IN  IF ~Returned(state) THEN state
             ELSE IF IsSequenceNode(transitions_node)
             THEN TransitionsLoop(i, transitions_node.elements, 1, state.val)
             ELSE state

\* The keyword arguments of Fsm(...) in _parse_fsm.
FsmKwargsOfTool(data) ==
    [name |-> DictItem(data, PyStr("name")),
     version |-> str(DictItem(data, PyStr("version"))),
     initial_state |-> DictItem(data, PyStr("initial_state")),
     states |-> <<>>]

FsmKwargs(data) ==
    [name |-> DictItem(data, PyStr("name")),
     version |-> str(DictItem(data, PyStr("version"))),
     description |-> Get(data, "description", PyStr("No description")),
     initial_state |-> DictItem(data, PyStr("initial_state")),
     states |-> <<>>]

\* What _parse_fsm does with a parsed state before appending it.
MarkInitial(fsm, fsm_state) ==
    IF PyEq(fsm_state.name, fsm.initial_state)
    THEN [fsm_state EXCEPT !.is_initial = PyTrue]
    ELSE fsm_state

\* The loop over states_node.elements from element j on.
RECURSIVE StatesLoop(_, _, _, _)
StatesLoop(i, elements, j, fsm) ==
    IF j > Len(elements) THEN Ok(fsm)
    ELSE IF ~IsMappingNode(elements[j]) THEN StatesLoop(i, elements, j + 1, fsm)
    ELSE LET st == _parse_state(i, elements[j]) IN
         IF ~Returned(st) THEN st
         ELSE StatesLoop(i, elements, j + 1,
                [fsm EXCEPT !.states = Append(@, MarkInitial(fsm, st.val))])

\* _parse_fsm
_parse_fsm(i, mapping) ==
    LET data == _mapping_to_dict(mapping) IN
    IF ~Has(data, "name") THEN FSMParseError("FSM must have a 'name' field")
    ELSE IF ~Has(data, "version") THEN FSMParseError("FSM must have a 'version' field")
    ELSE IF ~Has(data, "initial_state")
    THEN FSMParseError("FSM must have an 'initial_state' field")
    ELSE IF ~Has(data, "states") THEN FSMParseError("FSM must have a 'states' field")
    ELSE LET fsm == dataclass_init(Fsm,
                        IF i = "fsmtool" THEN FsmKwargsOfTool(data) ELSE FsmKwargs(data))
             states_node == _find_value_by_key(mapping, "states")
         IN  IF ~Returned(fsm) THEN fsm
             ELSE IF IsSequenceNode(states_node)
             THEN StatesLoop(i, states_node.elements, 1, fsm.val)
             ELSE fsm

\* The node _parse_fsm_beginning takes for the FSM body: the value of the
\* second pair of the root when the root has an 'fsmformat' key, of the first
\* pair otherwise.
FsmNode(mapping, data) ==
    IF Has(data, "fsmformat") THEN mapping.pairs[2].value ELSE mapping.pairs[1].value

\* The value _parse_fsm_beginning assigns to self.formatversion.
DetectedFormat(data) ==
    IF ~Has(data, "fsmformat") THEN PyStr("0.1")
    ELSE str(DictItem(data, PyStr("fsmformat")))

\* _parse_fsm_beginning: the outcome, and self.formatversion after it.
_parse_fsm_beginning(i, mapping) ==
    LET data == _mapping_to_dict(mapping)
        res == IF ~Has(data, "statemachine")
               THEN FSMParseError("FSM definition must start with the 'statemachine' key")
               ELSE IF ~IsMappingNode(FsmNode(mapping, data))
               THEN FSMParseError("FSM definition must be a mapping")
               ELSE _parse_fsm(i, FsmNode(mapping, data))
    IN  [res |-> res, formatversion |-> DetectedFormat(data)]

\* The conversion of a parser that serves one document only: once a format
\* version was detected it refuses every later call.  This is not the code.
ConvertOnce(i, fv, ast) ==
    IF fv # PyNone
    THEN [res |-> FSMParseError("parser already used"), formatversion |-> fv]
    ELSE IF Len(ast.documents) = 0
    THEN [res |-> FSMParseError("Empty FSM file"), formatversion |-> fv]
    ELSE IF ~IsMappingNode(ast.documents[1])
    THEN [res |-> FSMParseError("FSM file must contain a mapping at root"),
          formatversion |-> fv]
    ELSE _parse_fsm_beginning(i, ast.documents[1])

\* _convert_ast_to_fsm; fv is self.formatversion before the call.
_convert_ast_to_fsm(i, fv, ast) ==
    LET documents == ast.documents IN
    IF Len(documents) = 0
    THEN [res |-> FSMParseError("Empty FSM file"), formatversion |-> fv]
    ELSE IF ~IsMappingNode(documents[1])
    THEN [res |-> FSMParseError("FSM file must contain a mapping at root"),
          formatversion |-> fv]
    ELSE _parse_fsm_beginning(i, documents[1])

\* FSMParser.parse_string(data)
parse_string(i, fv, data) ==
    LET ast == yaml_parse_string(data) IN
    IF ~Returned(ast) THEN [res |-> ast, formatversion |-> fv]
    ELSE _convert_ast_to_fsm(i, fv, ast.val)

\* FSMParser.parse_file(filename), file being what the path holds
parse_file(i, fv, file) ==
    LET ast == yaml_parse_file(file) IN
    IF ~Returned(ast) THEN [res |-> ast, formatversion |-> fv]
    ELSE _convert_ast_to_fsm(i, fv, ast.val)

-----------------------------------------------------------------------------
(* fsm2yaml.py: FSM2YAMLGenerator.  A line written to the stream is the      *)
(* record [ind, kind, key, text]: ind is indent_level when it was written    *)
(* (the line starts with ind times indent_str), kind tells its form:         *)
(*   "comment"    # text            "blank"      (nothing after the indent)  *)
(*   "directive"  %YAML 1.2         "docstart"   ---                         *)
(*   "key"        key:              "keyval"     key: text                   *)
(*   "itemkey"    -   key: text     "item"       - text                      *)
(*   "item4"      -   text                                                   *)
(* The generator's progress is [out, ind, exc]: the lines written so far,    *)
(* indent_level, and the exception that ended it ("none" while it runs).     *)

Line(ind, kind, key, text) == [ind |-> ind, kind |-> kind, key |-> key, text |-> text]

\* f"{x}": the text of a scalar; a container's repr is not spelled out.
Format(x) == IF IsScalarValue(x) THEN x.v ELSE "<repr>"

\* The characters of the action texts of the model, for a for loop over a str.
Chars(text) ==
    IF text = "beep" THEN <<PyStr("b"), PyStr("e"), PyStr("e"), PyStr("p")>>
    ELSE IF text = "a1" THEN <<PyStr("a"), PyStr("1")>>
    ELSE IF text = "a2" THEN <<PyStr("a"), PyStr("2")>>
    ELSE <<PyStr(text)>>

\* What `for action in x` runs over, for a truthy x: the items of a list, the
\* characters of a str, the keys of a dict; a number is not iterable.
Iterable(x) == x.t \in {"list", "str", "dict"}
IterItems(x) ==
    CASE x.t = "list" -> x.items
      [] x.t = "str" -> Chars(x.v)
      [] x.t = "dict" -> [i \in 1..Len(x.entries) |-> x.entries[i][1]]

\* _write
_write(g, kind, key, text) ==
    IF g.exc # "none" THEN g
    ELSE [g EXCEPT !.out = Append(@, Line(g.ind, kind, key, text))]

\* self.indent_level += d
AddIndent(g, d) == IF g.exc # "none" THEN g ELSE [g EXCEPT !.ind = @ + d]

\* self._write(f"<key>: {obj.<attr>}"), in the form kind
WriteAttr(g, kind, key, obj, attr) ==
    IF g.exc # "none" THEN g
    ELSE IF ~HasAttr(obj, attr) THEN [g EXCEPT !.exc = "AttributeError"]
    ELSE _write(g, kind, key, Format(obj[attr]))

\* for action in actions: self._write(f"- {action}")
RECURSIVE WriteItems(_, _, _, _)
WriteItems(g, kind, items, j) ==
    IF j > Len(items) THEN g
    ELSE WriteItems(_write(g, kind, "", Format(items[j])), kind, items, j + 1)

\* if obj.<attr>: self._write("<key>:"), then one line per action
WriteActions(g, key, kind, obj, attr) ==
    IF g.exc # "none" THEN g
    ELSE IF ~HasAttr(obj, attr) THEN [g EXCEPT !.exc = "AttributeError"]
    ELSE IF ~Truthy(obj[attr]) THEN g
    ELSE IF ~Iterable(obj[attr]) THEN [_write(g, "key", key, "") EXCEPT !.exc = "TypeError"]
    ELSE WriteItems(_write(g, "key", key, ""), kind, IterItems(obj[attr]), 1)

\* The three lines of a banner; each is 80 columns wide with its indent.
Banner(g, text) ==
    _write(_write(_write(g, "comment", "", "#"), "comment", "", text), "comment", "", "#")

\* _generate_header; now is the text of datetime.today()
yaml_generate_header(g, fsm, now) ==
    LET g1 == Banner(g, now)
        g2 == _write(g1, "blank", "", "")
        g3 == _write(g2, "directive", "", "%YAML 1.2")
        g4 == _write(g3, "docstart", "", "---")
        g5 == _write(g4, "blank", "", "")
    IN  Banner(g5, Format(fsm.name))

\* _generate_footer
yaml_generate_footer(g, fsm) == Banner(g, Format(fsm.name))

\* _generate_transition
yaml_generate_transition(g, transition, source_state) ==
    LET g1 == IF HasAttr(transition, "target_state")
              THEN Banner(g, Format(transition.target_state))
              ELSE [g EXCEPT !.exc = "AttributeError"]
        g2 == WriteAttr(g1, "itemkey", "target_state", transition, "target_state")
        g3 == AddIndent(g2, 1)
        g4 == WriteAttr(g3, "keyval", "condition", transition, "condition")
        g5 == WriteAttr(g4, "keyval", "description", transition, "description")
        g6 == WriteAttr(g5, "keyval", "priority", transition, "priority")
        g7 == WriteActions(g6, "on_transition", "item4", transition, "on_transition_actions")
        g8 == _write(g7, "blank", "", "")
    IN  AddIndent(g8, -1)

\* for transition in state.transitions: a blank line, then the transition
RECURSIVE YamlTransitionsLoop(_, _, _, _)
YamlTransitionsLoop(g, transitions, j, source_state) ==
    IF j > Len(transitions) \/ g.exc # "none" THEN g
    ELSE YamlTransitionsLoop(
            yaml_generate_transition(_write(g, "blank", "", ""), transitions[j], source_state),
            transitions, j + 1, source_state)

\* _generate_state
yaml_generate_state(g, state) ==
    LET g1 == Banner(g, Format(state.name))
        g2 == WriteAttr(g1, "itemkey", "name", state, "name")
        g3 == AddIndent(g2, 1)
        g4 == WriteAttr(g3, "keyval", "description", state, "description")
        g5 == WriteAttr(g4, "keyval", "is_initial", state, "is_initial")
        g6 == WriteAttr(g5, "keyval", "is_final", state, "is_final")
        g7 == WriteActions(g6, "on_entry", "item", state, "on_entry_actions")
        g8 == WriteActions(g7, "do", "item", state, "do_actions")
        g9 == WriteActions(g8, "on_exit", "item", state, "on_exit_actions")
        g10 == IF g9.exc = "none" /\ Len(state.transitions) > 0
               THEN YamlTransitionsLoop(_write(g9, "key", "transitions", ""),
                                        state.transitions, 1, state.name)
               ELSE g9
        g11 == _write(g10, "blank", "", "")
    IN  AddIndent(g11, -1)

\* for state in fsm.states: a blank line, then the state
RECURSIVE YamlStatesLoop(_, _, _)
YamlStatesLoop(g, states, j) ==
    IF j > Len(states) \/ g.exc # "none" THEN g
    ELSE YamlStatesLoop(yaml_generate_state(_write(g, "blank", "", ""), states[j]),
                        states, j + 1)

\* _generate_fsm
yaml_generate_fsm(g, fsm) ==
    LET g1 == _write(g, "key", "statemachine", "")
        g2 == AddIndent(g1, 1)
        g3 == WriteAttr(g2, "keyval", "name", fsm, "name")
        g4 == WriteAttr(g3, "keyval", "version", fsm, "version")
        g5 == WriteAttr(g4, "keyval", "description", fsm, "description")
        g6 == WriteAttr(g5, "keyval", "initial_state", fsm, "initial_state")
        g7 == IF g6.exc = "none" /\ Len(fsm.states) > 0
              THEN YamlStatesLoop(_write(g6, "key", "states", ""), fsm.states, 1)
              ELSE g6
    IN  AddIndent(g7, -1)

\* _generate_to_stream, on a generator whose indent_level is ind
yaml_generate_to_stream(ind, fsm, now) ==
    LET g0 == [out |-> <<>>, ind |-> ind, exc |-> "none"]
        g1 == yaml_generate_header(g0, fsm, now)
        g2 == yaml_generate_fsm(g1, fsm)
    IN  yaml_generate_footer(g2, fsm)

-----------------------------------------------------------------------------
(* fsm2plantuml.py: FSM2PlantUMLGenerator, and fsm2stateflow.py:             *)
(* FSM2StateflowGenerator.  A line they write is the record [ind, kind,      *)
(* parts]: ind is indent_level when it was written, kind names the format    *)
(* string of the _write call and parts are the texts put into it, in order.  *)

Line2(ind, kind, parts) == [ind |-> ind, kind |-> kind, parts |-> parts]

NewStream(ind) == [out |-> <<>>, ind |-> ind, exc |-> "none"]

\* self._write(<format string kind>) with the texts parts
WriteLine(g, kind, parts) ==
    IF g.exc # "none" THEN g
    ELSE [g EXCEPT !.out = Append(@, Line2(g.ind, kind, parts))]

\* Evaluating obj.<attr> for each of attrs: AttributeError when one is missing.
Need(g, obj, attrs) ==
    IF g.exc # "none" THEN g
    ELSE IF \E a \in attrs : ~HasAttr(obj, a) THEN [g EXCEPT !.exc = "AttributeError"]
    ELSE g

\* Ending a generator with the exception exc.
Fail(g, exc) == IF g.exc # "none" THEN g ELSE [g EXCEPT !.exc = exc]

\* What two parts of a generator write one after the other, each on a stream
\* of its own: the second part is not reached when the first one raises.
Then(a, b) ==
    IF a.exc # "none" THEN a
    ELSE [out |-> a.out \o b.out, ind |-> b.ind, exc |-> b.exc]

\* The texts of a sequence of Python values, as an f-string writes them.
Formats(items) == [i \in 1..Len(items) |-> Format(items[i])]

\* FSM2PlantUMLGenerator._generate_header
plantuml_generate_header(g, fsm, now) ==
    LET g1 == WriteLine(g, "comment_open", <<>>)
        g2 == WriteLine(g1, "text", <<"PlantUML description of FSM.">>)
        g3 == WriteLine(Need(g2, fsm, {"name"}), "State machine: {}", <<Format(fsm.name)>>)
        g4 == WriteLine(Need(g3, fsm, {"version"}), "Version: {}", <<Format(fsm.version)>>)
        g5 == Need(g4, fsm, {"description"})
        g6 == IF g5.exc # "none" THEN g5
              ELSE WriteLine(g5, "Description: {}", <<Format(fsm.description)>>)
        g7 == WriteLine(g6, "Generated on: {}", <<now>>)
        g8 == WriteLine(g7, "comment_close", <<>>)
        g9 == WriteLine(g8, "blank", <<>>)
        g10 == WriteLine(g9, "text", <<"@startuml">>)
        g11 == WriteLine(g10, "text", <<"hide empty description">>)
    IN  WriteLine(g11, "blank", <<>>)

\* FSM2PlantUMLGenerator._generate_footer
plantuml_generate_footer(g, fsm) ==
    LET g1 == WriteLine(g, "comment_open", <<>>)
        g2 == WriteLine(Need(g1, fsm, {"name"}), " End of Finite State Machine: {}",
                        <<Format(fsm.name)>>)
        g3 == WriteLine(g2, "comment_close", <<>>)
        g4 == WriteLine(g3, "blank", <<>>)
    IN  WriteLine(g4, "text", <<"@enduml">>)

\* ', '.join(actions): TypeError on an item that is no str, and on a value
\* that cannot be iterated.
Joinable(x) == Iterable(x) /\ \A i \in 1..Len(IterItems(x)) : IterItems(x)[i].t = "str"

\* The parts of the label of an edge after the condition, in the order of the
\* format string: description, priority, actions.
EdgeLabel(transition) ==
    (IF Truthy(transition.description) /\ transition.description # PyStr("No description")
     THEN <<"Description", Format(transition.description)>> ELSE <<>>)
    \o (IF transition.priority # PyNone
        THEN <<"Priority", Format(transition.priority)>> ELSE <<>>)
    \o (IF Truthy(transition.on_transition_actions)
        THEN <<"Actions">> \o Formats(IterItems(transition.on_transition_actions))
        ELSE <<>>)

\* FSM2PlantUMLGenerator._generate_transition
plantuml_generate_transition(g, transition, source_state) ==
    LET g1 == Need(g, transition, {"target_state", "condition", "description", "priority",
                                   "on_transition_actions"})
        g2 == IF g1.exc # "none" THEN g1
              ELSE IF Truthy(transition.on_transition_actions)
                      /\ ~Joinable(transition.on_transition_actions)
              THEN Fail(g1, "TypeError")
              ELSE WriteLine(g1, "{} --> {} : Condition: {}",
                        <<Format(source_state), Format(transition.target_state),
                          Format(transition.condition)>> \o EdgeLabel(transition))
    IN  WriteLine(g2, "blank", <<>>)

RECURSIVE PlantumlTransitionsLoop(_, _, _, _)
\* for transition in state.transitions
PlantumlTransitionsLoop(ind, transitions, j, source_state) ==
    IF j > Len(transitions) THEN NewStream(ind)
    ELSE Then(plantuml_generate_transition(NewStream(ind), transitions[j], source_state),
              PlantumlTransitionsLoop(ind, transitions, j + 1, source_state))

RECURSIVE PlantumlItems(_, _, _, _)
\* for action in actions: self._write(f"{state.name} : {action}")
PlantumlItems(g, name, items, j) ==
    IF j > Len(items) THEN g
    ELSE PlantumlItems(WriteLine(g, "{} : {}", <<name, Format(items[j])>>), name, items, j + 1)

\* if state.<attr>: the header line, one line per action, a blank line
PlantumlActions(g, state, attr, header) ==
    LET g1 == Need(g, state, {attr}) IN
    IF g1.exc # "none" \/ ~Truthy(state[attr]) THEN g1
    ELSE LET g2 == WriteLine(g1, header, <<Format(state.name)>>) IN
         IF ~Iterable(state[attr]) THEN Fail(g2, "TypeError")
         ELSE WriteLine(PlantumlItems(g2, Format(state.name), IterItems(state[attr]), 1),
                        "blank", <<>>)

\* FSM2PlantUMLGenerator._generate_state: the comment and the initial marker
PlantumlStateOpening(g, state) ==
    LET g1 == WriteLine(g, "comment_open", <<>>)
        g2 == WriteLine(Need(g1, state, {"name"}), " State: {}", <<Format(state.name)>>)
        g3 == WriteLine(g2, "comment_close", <<>>)
    IN  IF Truthy(state.is_initial)
        THEN WriteLine(g3, "[*] --> {}", <<Format(state.name)>>) ELSE g3

\* FSM2PlantUMLGenerator._generate_state: the final marker and the description
PlantumlStateDescription(g, state) ==
    LET g1 == IF Truthy(state.is_final)
              THEN WriteLine(g, "{} --> [*]", <<Format(state.name)>>) ELSE g
        g2 == Need(g1, state, {"description"})
    IN  IF HasAttr(state, "description") /\ Truthy(state.description)
           /\ state.description # PyStr("No description")
        THEN WriteLine(WriteLine(g2, "{} : {}",
                          <<Format(state.name), Format(state.description)>>),
                       "blank", <<>>)
        ELSE g2

\* FSM2PlantUMLGenerator._generate_state
plantuml_generate_state(g, state) ==
    Then(PlantumlStateOpening(g, state),
    Then(PlantumlTransitionsLoop(g.ind, state.transitions, 1, state.name),
    Then(PlantumlStateDescription(NewStream(g.ind), state),
    Then(PlantumlActions(NewStream(g.ind), state, "on_entry_actions",
                         "{} : \\nOn entry actions:"),
    Then(PlantumlActions(NewStream(g.ind), state, "do_actions", "{} : \\nDo actions:"),
    Then(PlantumlActions(NewStream(g.ind), state, "on_exit_actions",
                         "{} : \\nOn exit actions:"),
         WriteLine(NewStream(g.ind), "blank", <<>>)))))))

RECURSIVE PlantumlStatesLoop(_, _, _)
\* for state in fsm.states
PlantumlStatesLoop(ind, states, j) ==
    IF j > Len(states) THEN NewStream(ind)
    ELSE Then(plantuml_generate_state(NewStream(ind), states[j]),
              PlantumlStatesLoop(ind, states, j + 1))

\* FSM2PlantUMLGenerator._generate_fsm
plantuml_generate_fsm(g, fsm) ==
    LET g1 == WriteLine(Need(g, fsm, {"name", "version"}),
                        "title State diagram for {}, version {}",
                        <<Format(fsm.name), Format(fsm.version)>>)
    IN  Then(WriteLine(g1, "blank", <<>>), PlantumlStatesLoop(g.ind, fsm.states, 1))

\* FSM2PlantUMLGenerator._generate_to_stream, on a generator whose
\* indent_level is ind
plantuml_generate_to_stream(ind, fsm, now) ==
    Then(plantuml_generate_header(NewStream(ind), fsm, now),
    Then(plantuml_generate_fsm(NewStream(ind), fsm),
         plantuml_generate_footer(NewStream(ind), fsm)))

\* The layout constants of FSM2StateflowGenerator._generate_states.
cols == 3
x_start == 50
y_start == 50
width == 150
height == 120
x_spacing == 200
y_spacing == 180

\* A Python str of a condition or of an action, as the sequence of its
\* characters. A run of letters and digits that holds none of the texts the
\* generator looks for ("go", "a1") stands as one character.
Whitespace == {" ", "\t", "\n"}
Spell(text) ==
    CASE text = " a1 " -> <<" ", "a1", " ">>
      [] text = "a2; " -> <<"a2", ";", " ">>
      [] text = "a2;" -> <<"a2", ";">>
      [] text = "beep;" -> <<"beep", ";">>
      [] text = "a && b" -> <<"a", " ", "&", "&", " ", "b">>
      [] text = "a || b" -> <<"a", " ", "|", "|", " ", "b">>
      [] text = "True" -> <<"T", "r", "u", "e">>
      [] text = "False" -> <<"F", "a", "l", "s", "e">>
      [] text = "true" -> <<"t", "r", "u", "e">>
      [] text = "false" -> <<"f", "a", "l", "s", "e">>
      [] OTHER -> <<text>>

\* s[i:].startswith(old), i counted from 1
StartsWithAt(s, old, i) ==
    /\ i + Len(old) - 1 <= Len(s)
    /\ \A j \in 1..Len(old) : s[i + j - 1] = old[j]

RECURSIVE ReplaceFrom(_, _, _, _)
\* str.replace from position i on: the occurrences of old are found from left
\* to right and do not overlap; the text put in is not searched again.
ReplaceFrom(s, old, new, i) ==
    IF i > Len(s) THEN <<>>
    ELSE IF StartsWithAt(s, old, i) THEN new \o ReplaceFrom(s, old, new, i + Len(old))
    ELSE <<s[i]>> \o ReplaceFrom(s, old, new, i + 1)

\* str.replace(old, new), old not empty
replace(s, old, new) == ReplaceFrom(s, old, new, 1)

RECURSIVE lstrip(_), rstrip(_)
lstrip(s) == IF s # <<>> /\ s[1] \in Whitespace THEN lstrip(Tail(s)) ELSE s
rstrip(s) ==
    IF s # <<>> /\ s[Len(s)] \in Whitespace THEN rstrip(SubSeq(s, 1, Len(s) - 1)) ELSE s

\* str.strip()
strip(s) == rstrip(lstrip(s))

\* str.endswith(suffix)
endswith(s, suffix) ==
    Len(suffix) <= Len(s) /\ SubSeq(s, Len(s) - Len(suffix) + 1, Len(s)) = suffix

\* if action.endswith(';'): action = action[:-1]
DropSemicolon(s) == IF endswith(s, <<";">>) THEN SubSeq(s, 1, Len(s) - 1) ELSE s

RECURSIVE join(_, _)
\* sep.join(texts)
join(sep, texts) ==
    IF texts = <<>> THEN <<>>
    ELSE IF Len(texts) = 1 THEN texts[1]
    ELSE texts[1] \o sep \o join(sep, Tail(texts))

\* FSM2StateflowGenerator._format_actions on a list of str: "" for no action,
\* else each action stripped and without one ';' at its end, joined by "; ".
_format_actions(actions) ==
    IF actions = <<>> THEN <<>>
    ELSE join(<<";", " ">>, [i \in 1..Len(actions) |-> DropSemicolon(strip(actions[i]))])

\* _format_actions on a truthy value of any type: the characters of the
\* summary, or the exception raised (TypeError on a value that cannot be
\* iterated, AttributeError on an item without strip()).
FormatActionsOf(actions) ==
    IF ~Iterable(actions) THEN [exc |-> "TypeError", items |-> <<>>]
    ELSE IF \E i \in 1..Len(IterItems(actions)) : IterItems(actions)[i].t # "str"
    THEN [exc |-> "AttributeError", items |-> <<>>]
    ELSE [exc |-> "none",
          items |-> _format_actions([i \in 1..Len(IterItems(actions)) |->
                                        Spell(IterItems(actions)[i].v)])]

\* FSM2StateflowGenerator._convert_condition: five replacements, one after the
\* other, each on the result of the one before.
_convert_condition(condition) ==
    replace(replace(replace(replace(replace(condition,
        <<"=", "=">>, <<"=", "=">>),
        <<"&", "&">>, <<"&">>),
        <<"|", "|">>, <<"|">>),
        <<"T", "r", "u", "e">>, <<"t", "r", "u", "e">>),
        <<"F", "a", "l", "s", "e">>, <<"f", "a", "l", "s", "e">>)

\* FSM2StateflowGenerator._generate_header
stateflow_generate_header(g, fsm, now) ==
    LET g1 == WriteLine(g, "comment_rule", <<>>)
        g2 == WriteLine(g1, "text", <<"%% Stateflow Chart Generation Script">>)
        g3 == WriteLine(Need(g2, fsm, {"name"}), "%% State Machine: {}", <<Format(fsm.name)>>)
        g4 == WriteLine(Need(g3, fsm, {"version"}), "%% Version: {}", <<Format(fsm.version)>>)
        g5 == WriteLine(g4, "%% Generated on: {}", <<now>>)
        g6 == WriteLine(g5, "comment_rule", <<>>)
        g7 == WriteLine(g6, "blank", <<>>)
        g8 == WriteLine(g7, "text", <<"% Clean up workspace">>)
        g9 == WriteLine(g8, "text", <<"close all;">>)
        g10 == WriteLine(g9, "text", <<"bdclose all;">>)
    IN  WriteLine(g10, "blank", <<>>)

\* One _write per text, "" being the empty line.
WriteTexts(g, texts) ==
    IF g.exc # "none" THEN g
    ELSE [g EXCEPT !.out = @ \o [j \in 1..Len(texts) |->
                IF texts[j] = "" THEN Line2(g.ind, "blank", <<>>)
                ELSE Line2(g.ind, "text", <<texts[j]>>)]]

\* FSM2StateflowGenerator._generate_model_creation
stateflow_generate_model_creation(g, fsm) ==
    LET g1 == WriteLine(g, "text", <<"%% Create new Simulink model">>)
        g2 == WriteLine(Need(g1, fsm, {"name"}), "modelName = '{}';", <<Format(fsm.name)>>)
        g3 == WriteLine(g2, "text", <<"if bdIsLoaded(modelName)">>)
        g4 == AddIndent(g3, 1)
        g5 == WriteLine(g4, "text", <<"close_system(modelName, 0);">>)
        g6 == AddIndent(g5, -1)
    IN  WriteTexts(g6,
            <<"end", "new_system(modelName);", "open_system(modelName);", "",
              "%% Add Stateflow chart",
              "chart = add_block('sflib/Chart', [modelName '/StateChart']);",
              "set_param(chart, 'Position', [100 100 600 500]);", "",
              "%% Get chart object", "rt = sfroot;",
              "model = rt.find('-isa', 'Simulink.BlockDiagram', 'Name', modelName);",
              "chartObj = model.find('-isa', 'Stateflow.Chart');", "">>)

\* One part of a state's label: if state.<attr>, "<word>: " and the actions.
LabelPart(state, attr, word) ==
    IF ~HasAttr(state, attr) THEN [exc |-> "AttributeError", items |-> <<>>]
    ELSE IF ~Truthy(state[attr]) THEN [exc |-> "none", items |-> <<>>]
    ELSE LET f == FormatActionsOf(state[attr]) IN
         [exc |-> f.exc, items |-> <<word>> \o f.items]

\* The body of the loop of _generate_states for the state of index i (from 0).
stateflow_generate_state(g, state, i) ==
    LET x == x_start + (i % cols) * x_spacing
        y == y_start + (i \div cols) * y_spacing
        g1 == Need(g, state, {"name"})
        name == Format(state.name)
        g2 == WriteLine(g1, "%% State: {}", <<name>>)
        g3 == WriteLine(g2, "state_{} = Stateflow.State(chartObj);", <<name>>)
        g4 == WriteLine(g3, "state_{}.Name = '{}';", <<name, name>>)
        g5 == WriteLine(g4, "state_{}.Position = [{} {} {} {}];",
                        <<name, ToString(x), ToString(y), ToString(width), ToString(height)>>)
        entry == LabelPart(state, "on_entry_actions", "entry")
        during == LabelPart(state, "do_actions", "during")
        exit == LabelPart(state, "on_exit_actions", "exit")
        g6 == IF g5.exc # "none" THEN g5
              ELSE IF entry.exc # "none" THEN Fail(g5, entry.exc)
              ELSE IF during.exc # "none" THEN Fail(g5, during.exc)
              ELSE IF exit.exc # "none" THEN Fail(g5, exit.exc)
              ELSE IF entry.items \o during.items \o exit.items # <<>>
              THEN WriteLine(g5, "state_{}.LabelString = '{}';",
                             <<name>> \o entry.items \o during.items \o exit.items)
              ELSE g5
    IN  WriteLine(g6, "blank", <<>>)

RECURSIVE StateflowStatesLoop(_, _, _)
\* for i, state in enumerate(fsm.states); j is i + 1
StateflowStatesLoop(ind, states, j) ==
    IF j > Len(states) THEN NewStream(ind)
    ELSE Then(stateflow_generate_state(NewStream(ind), states[j], j - 1),
              StateflowStatesLoop(ind, states, j + 1))

\* FSM2StateflowGenerator._generate_states
stateflow_generate_states(g, fsm) ==
    Then(Need(WriteLine(g, "text", <<"%% Create states">>), fsm, {"states"}),
    Then(StateflowStatesLoop(g.ind, fsm.states, 1),
         WriteLine(NewStream(g.ind), "blank", <<>>)))

\* The body of the inner loop of _generate_transitions; trans_id is the
\* counter after its increment.
stateflow_generate_transition(g, state, transition, trans_id) ==
    LET g1 == Need(Need(g, state, {"name"}), transition, {"target_state"})
        name == Format(state.name)
        target == Format(transition.target_state)
        k == ToString(trans_id)
        g2 == WriteLine(g1, "%% Transition: {} -> {}", <<name, target>>)
        g3 == WriteLine(g2, "trans_{} = Stateflow.Transition(chartObj);", <<k>>)
        g4 == WriteLine(g3, "trans_{}.Source = state_{};", <<k, name>>)
        g5 == WriteLine(g4, "trans_{}.Destination = state_{};", <<k, target>>)
        g6 == Need(g5, transition, {"condition"})
        guarded == g6.exc = "none" /\ Truthy(transition.condition)
                   /\ transition.condition # PyStr("true")
        g7 == IF guarded /\ transition.condition.t # "str" THEN Fail(g6, "AttributeError") ELSE g6
        condition == IF guarded /\ g7.exc = "none"
                     THEN <<"[">> \o _convert_condition(Spell(transition.condition.v)) \o <<"]">>
                     ELSE <<>>
        g8 == Need(g7, transition, {"on_transition_actions"})
        acts == IF g8.exc = "none" /\ Truthy(transition.on_transition_actions)
                THEN FormatActionsOf(transition.on_transition_actions)
                ELSE [exc |-> "none", items |-> <<>>]
        actions == IF g8.exc = "none" /\ Truthy(transition.on_transition_actions)
                   THEN (IF condition # <<>> THEN <<"/">> ELSE <<>>) \o acts.items
                   ELSE <<>>
        g9 == IF g8.exc # "none" THEN g8
              ELSE IF acts.exc # "none" THEN Fail(g8, acts.exc)
              ELSE IF condition \o actions # <<>>
              THEN WriteLine(g8, "trans_{}.LabelString = '{}';", <<k>> \o condition \o actions)
              ELSE g8
    IN  WriteLine(g9, "blank", <<>>)

RECURSIVE StateflowTransitionsLoop(_, _, _, _), StateflowSourcesLoop(_, _, _, _)
\* for transition in state.transitions, trans_id being the counter so far
StateflowTransitionsLoop(ind, state, j, trans_id) ==
    IF j > Len(state.transitions) THEN NewStream(ind)
    ELSE Then(stateflow_generate_transition(NewStream(ind), state, state.transitions[j],
                                            trans_id + 1),
              StateflowTransitionsLoop(ind, state, j + 1, trans_id + 1))

\* for state in fsm.states (the outer loop of _generate_transitions); the
\* counter goes on over the transitions of every state
StateflowSourcesLoop(ind, states, j, trans_id) ==
    IF j > Len(states) THEN NewStream(ind)
    ELSE Then(StateflowTransitionsLoop(ind, states[j], 1, trans_id),
              StateflowSourcesLoop(ind, states, j + 1,
                                   trans_id + Len(states[j].transitions)))

\* FSM2StateflowGenerator._generate_transitions
stateflow_generate_transitions(g, fsm) ==
    Then(WriteLine(g, "text", <<"%% Create transitions">>),
    Then(StateflowSourcesLoop(g.ind, fsm.states, 1, 0),
         WriteLine(NewStream(g.ind), "blank", <<>>)))

\* FSM2StateflowGenerator._generate_initial_state
stateflow_generate_initial_state(g, fsm) ==
    LET g1 == WriteLine(g, "text", <<"%% Set initial state">>)
        g2 == WriteLine(g1, "text", <<"defaultTrans = Stateflow.Transition(chartObj);">>)
        g3 == Need(g2, fsm, {"initial_state"})
        initial == Format(fsm.initial_state)
        g4 == WriteLine(g3, "defaultTrans.Destination = state_{};", <<initial>>)
        g5 == WriteLine(g4, "text", <<"defaultTrans.DestinationOClock = 9;">>)
        g6 == WriteLine(g5, "defaultTrans.SourceEndpoint = [state_{}.Position(1)-50, state_{}.Position(2)+60];",
                        <<initial, initial>>)
        g7 == WriteLine(g6, "defaultTrans.MidPoint = [state_{}.Position(1)-25, state_{}.Position(2)+60];",
                        <<initial, initial>>)
    IN  WriteLine(g7, "blank", <<>>)

\* FSM2StateflowGenerator._generate_footer
stateflow_generate_footer(g, fsm) ==
    LET g1 == WriteTexts(g, <<"%% Arrange chart layout", "Stateflow.Root;", "", "%% Save model">>)
        g2 == Need(g1, fsm, {"name"})
        name == Format(fsm.name)
        g3 == WriteLine(g2, "save_system('{}');", <<name>>)
        g4 == WriteLine(g3, "blank", <<>>)
        g5 == WriteLine(g4, "disp('Stateflow model created: {}.slx');", <<name>>)
        g6 == WriteLine(g5, "text",
                        <<"disp('Open the model and double-click the Chart block to view.');">>)
        g7 == WriteLine(g6, "blank", <<>>)
        g8 == WriteLine(g7, "comment_rule", <<>>)
        g9 == WriteLine(g8, "% End of Finite State Machine: {}", <<name>>)
    IN  WriteLine(g9, "comment_rule", <<>>)

\* FSM2StateflowGenerator._generate_to_stream, on a generator whose
\* indent_level is ind
stateflow_generate_to_stream(ind, fsm, now) ==
    Then(stateflow_generate_header(NewStream(ind), fsm, now),
    Then(stateflow_generate_model_creation(NewStream(ind), fsm),
    Then(stateflow_generate_states(NewStream(ind), fsm),
    Then(stateflow_generate_transitions(NewStream(ind), fsm),
    Then(stateflow_generate_initial_state(NewStream(ind), fsm),
         stateflow_generate_footer(NewStream(ind), fsm))))))

\* The three generators and generate's rendering by kind.
Kinds == {"plantuml", "stateflow", "yaml"}
generate_to_stream(kind, ind, fsm, now) ==
    CASE kind = "plantuml" -> plantuml_generate_to_stream(ind, fsm, now)
      [] kind = "stateflow" -> stateflow_generate_to_stream(ind, fsm, now)
      [] kind = "yaml" -> yaml_generate_to_stream(ind, fsm, now)

-----------------------------------------------------------------------------
(* Reading the generator's output back: what yaml.compose_all makes of the   *)
(* lines (yaml_ast_parser.py, parse_string).  Comments and blank lines are   *)
(* skipped; the %YAML directive and the --- line open the one document.  A   *)
(* block's column is counted in indents: a key line of indent c is at column *)
(* c, the dash of an item line of indent c is at column c and the key of an  *)
(* "itemkey" line at column c + 1.                                           *)

\* The tag PyYAML's implicit resolver gives a plain scalar.
ResolveTag(text) ==
    IF text \in NullTexts THEN "null"
    ELSE IF text \in {"true", "True", "TRUE", "false", "False", "FALSE", "yes", "Yes",
                      "YES", "no", "No", "NO", "on", "On", "ON", "off", "Off", "OFF"}
    THEN "bool"
    ELSE IF text \in IntTexts \cup {"0x1F"} THEN "int"
    ELSE IF text \in FloatTexts THEN "float"
    ELSE "str"

Plain(text) == YScalar(ResolveTag(text), text)

IsItemLine(l) == l.kind \in {"item", "item4", "itemkey"}
IsKeyLine(l) == l.kind \in {"key", "keyval"}

Composed(node, next, bad) == [node |-> node, next |-> next, bad |-> bad]

RECURSIVE ComposeValue(_, _, _), ComposeMapEntries(_, _, _, _), ComposeSeqItems(_, _, _, _)

\* The value of a "key:" line of column c, read from line p on: a sequence
\* (its dashes may stand in the key's column), a mapping further in, or null.
ComposeValue(L, p, c) ==
    IF p <= Len(L) /\ IsItemLine(L[p]) /\ L[p].ind >= c
    THEN ComposeSeqItems(L, p, L[p].ind, <<>>)
    ELSE IF p <= Len(L) /\ IsKeyLine(L[p]) /\ L[p].ind > c
    THEN ComposeMapEntries(L, p, L[p].ind, <<>>)
    ELSE Composed(YScalar("null", ""), p, FALSE)

\* The entries of the block mapping of column c from line p on, after acc.
ComposeMapEntries(L, p, c, acc) ==
    IF p > Len(L) \/ L[p].ind < c THEN Composed(YMap(acc), p, FALSE)
    ELSE IF IsKeyLine(L[p]) /\ L[p].ind = c
    THEN IF L[p].kind = "keyval"
         THEN ComposeMapEntries(L, p + 1, c, Append(acc, Field(L[p].key, Plain(L[p].text))))
         ELSE LET v == ComposeValue(L, p + 1, c) IN
              IF v.bad THEN v
              ELSE ComposeMapEntries(L, v.next, c, Append(acc, Field(L[p].key, v.node)))
    ELSE Composed(YMap(acc), p, TRUE)

\* The items of the block sequence whose dashes are in column c, after acc.
ComposeSeqItems(L, p, c, acc) ==
    IF p > Len(L) \/ L[p].ind < c \/ (IsKeyLine(L[p]) /\ L[p].ind = c)
    THEN Composed(YSeq(acc), p, FALSE)
    ELSE IF IsItemLine(L[p]) /\ L[p].ind = c
    THEN IF L[p].kind = "itemkey"
         THEN LET m == ComposeMapEntries(L, p + 1, c + 1,
                            <<Field(L[p].key, Plain(L[p].text))>>) IN
              IF m.bad THEN m ELSE ComposeSeqItems(L, m.next, c, Append(acc, m.node))
         ELSE ComposeSeqItems(L, p + 1, c, Append(acc, Plain(L[p].text)))
    ELSE Composed(YSeq(acc), p, TRUE)

\* The text of the output, as compose_all reads it.
Compose(lines) ==
    LET L == SelectSeq(lines, LAMBDA l : IsItemLine(l) \/ IsKeyLine(l))
        top == IF Len(L) > 0 /\ IsItemLine(L[1])
               THEN ComposeSeqItems(L, 1, L[1].ind, <<>>)
               ELSE ComposeMapEntries(L, 1, 0, <<>>)
    IN  IF Len(L) = 0 THEN Stream(<<YScalar("null", "")>>)
        ELSE IF top.bad \/ top.next <= Len(L) THEN Malformed
        ELSE Stream(<<top.node>>)

-----------------------------------------------------------------------------
(* The documents the parser is run on, as PyYAML composes them.  Each family *)
(* varies one level of the document of section 6 of the spec around a        *)
(* document that has every required field.                                   *)

SeqsUpTo(S, n) == UNION {[1..m -> S] : m \in 0..n}

\* The pairs of a mapping whose key is in keep, in the mapping's order.
Keep(pairs, keep) == SelectSeq(pairs, LAMBDA p : p[1].text \in keep)

\* The values an action field (on_entry, do, on_exit, on_transition) is given:
\* an empty value, a bare scalar, a two-item list, an empty list.
ActionValues ==
    {YScalar("null", ""), YStr("beep"), YSeq(<<YStr("a1"), YStr("a2")>>), YSeq(<<>>)}

TransitionFields ==
    <<Field("target_state", YStr("Running")),
      Field("condition", YStr("go")),
      Field("priority", YScalar("int", "1"))>>

GoodTransition == YMap(TransitionFields)

Stray == YStr("stray")

TransitionVariants ==
    {YMap(Keep(TransitionFields, keep)) :
        keep \in SUBSET {"target_state", "condition", "priority"}}
    \cup {YMap(TransitionFields \o <<Field("on_transition", a)>>) : a \in ActionValues}
    \cup {YMap(<<Field("description", YStr("leave")), Field("priority", YScalar("int", "2")),
                 Field("condition", YStr("halt")), Field("target_state", YStr("Idle"))>>)}
    \cup {Stray}

\* A state: its name node (or NoNode for no name key), the is_initial node (or
\* NoNode) and the pairs that follow.
StateNode(name, is_initial, rest) ==
    YMap((IF name = NoNode THEN <<>> ELSE <<Field("name", name)>>)
         \o (IF is_initial = NoNode THEN <<>> ELSE <<Field("is_initial", is_initial)>>)
         \o rest)

GoodState == StateNode(YStr("Idle"), NoNode, <<>>)
Nameless == StateNode(NoNode, NoNode, <<Field("is_final", YScalar("bool", "true"))>>)

StateVariants ==
    {GoodState, Nameless, Stray,
     StateNode(YStr("Running"), NoNode, <<>>),
     StateNode(YStr("Running"), YScalar("bool", "true"), <<>>),
     StateNode(YStr("Idle"), YScalar("bool", "false"), <<>>),
     StateNode(YScalar("null", ""), NoNode, <<>>),
     StateNode(YStr("Idle"), NoNode, <<Field("transitions", YSeq(<<GoodTransition>>))>>),
     StateNode(YStr("Idle"), NoNode,
        <<Field("description", YStr("waiting")), Field("is_final", YScalar("bool", "true")),
          Field("on_entry", YSeq(<<YStr("a1"), YStr("a2")>>)),
          Field("do", YStr("beep")), Field("on_exit", YSeq(<<>>))>>),
     StateNode(YStr("Idle"), NoNode,
        <<Field("on_entry", YScalar("null", "")), Field("do", YSeq(<<YStr("a1")>>)),
          Field("on_exit", YStr("beep"))>>),
     StateNode(YStr("Idle"), NoNode,
        <<Field("on_entry", YStr("beep")), Field("do", YScalar("null", "")),
          Field("on_exit", YSeq(<<YStr("a1"), YStr("a2")>>))>>)}

\* The FSM body with the given value of 'states'.
BodyFields(states) ==
    <<Field("name", YStr("Lamp")),
      Field("version", YScalar("float", "1.0")),
      Field("description", YStr("a lamp")),
      Field("initial_state", YStr("Idle")),
      Field("states", states)>>

Body(states) == YMap(BodyFields(states))

Document(states) == Stream(<<YMap(<<Field("statemachine", Body(states))>>)>>)

StateDocs == {Document(YSeq(sts)) : sts \in SeqsUpTo(StateVariants, MaxStates)}

TransitionDocs ==
    {Document(YSeq(<<StateNode(YStr("Idle"), NoNode, <<Field("transitions", YSeq(trs))>>)>>)) :
        trs \in SeqsUpTo(TransitionVariants, MaxTransitions)}

\* Bodies: every subset of the five keys; 'states' that is no sequence; other
\* types of 'version'; a body with two 'states' keys.
BodyVariants ==
    {YMap(Keep(BodyFields(YSeq(<<GoodState>>)), keep)) :
        keep \in SUBSET {"name", "version", "description", "initial_state", "states"}}
    \cup {Body(YStr("none")), Body(YScalar("null", ""))}
    \cup {YMap(<<Field("name", YStr("Lamp")), Field("version", v),
                 Field("initial_state", YStr("Idle")), Field("states", YSeq(<<GoodState>>))>>) :
            v \in {YStr("1.0.0"), YScalar("int", "1"), YScalar("null", "")}}
    \cup {YMap(BodyFields(YSeq(<<>>)) \o <<Field("states", YSeq(<<GoodState>>))>>)}

BodyDocs == {Stream(<<YMap(<<Field("statemachine", b)>>)>>) : b \in BodyVariants}

\* Roots: the place of 'statemachine' among the root's keys, with and without
\* 'fsmformat', and roots and streams that are no mapping at all.
GoodBody == Body(YSeq(<<GoodState>>))
OtherBody ==
    YMap(<<Field("name", YStr("Other")), Field("version", YStr("2")),
           Field("initial_state", YStr("Running")), Field("states", YSeq(<<>>))>>)

StatemachineValues == {GoodBody, YMap(Keep(BodyFields(YSeq(<<GoodState>>)), {"version", "states"})),
                       YStr("text")}
FormatValues == {YStr("0.2"), YScalar("float", "0.1"), YScalar("int", "0x1F")}
OtherValues == {OtherBody, YStr("text")}

RootVariants ==
    {YMap(<<>>), YStr("text"), YSeq(<<GoodBody>>)}
    \cup {YMap(<<Field("fsmformat", f)>>) : f \in FormatValues}
    \cup {YMap(<<Field("other", o)>>) : o \in OtherValues}
    \cup UNION {UNION {
            {YMap(<<Field("statemachine", sm)>>),
             YMap(<<Field("fsmformat", f), Field("statemachine", sm)>>),
             YMap(<<Field("statemachine", sm), Field("fsmformat", f)>>)} :
            f \in FormatValues} : sm \in StatemachineValues}
    \cup UNION {UNION {
            {YMap(<<Field("other", o), Field("statemachine", sm)>>),
             YMap(<<Field("statemachine", sm), Field("other", o)>>),
             YMap(<<Field("fsmformat", YStr("0.2")), Field("other", o),
                    Field("statemachine", sm)>>),
             YMap(<<Field("other", o), Field("fsmformat", YStr("0.2")),
                    Field("statemachine", sm)>>)} :
            o \in OtherValues} : sm \in StatemachineValues}

\* A root with another mapping first, statemachine second and fsmformat last.
FormatLast ==
    YMap(<<Field("other", OtherBody), Field("statemachine", GoodBody),
           Field("fsmformat", YStr("0.2"))>>)

RootDocs ==
    {Stream(<<>>), Stream(<<YMap(<<Field("statemachine", GoodBody)>>), YStr("second")>>),
     Stream(<<FormatLast>>)}
    \cup {Stream(<<r>>) : r \in RootVariants}

Documents == RootDocs \cup BodyDocs \cup StateDocs \cup TransitionDocs

\* The texts parse_string is given, and what a path given to parse_file holds.
Texts == Documents \cup {Malformed}
Files == Texts \cup {NoFile}

-----------------------------------------------------------------------------
(* The parser instance and its caller *)

Nothing == Raise("none yet", "")

\* The texts datetime.today().strftime(...) gives at two times of day.
Times == {"2026-01-01 10:00:00", "2026-01-01 10:00:01"}

\* The namespace of a run without output options, reading standard input.
NoArgs ==
    [file |-> "-", plantuml |-> "None", autosar_c |-> "None", hpp_cpp |-> "None",
     stateflow |-> "None", yaml |-> "None", analyze |-> "None"]

\* No file handle was opened yet for the output of a generator.
NoHandles == [k \in {"plantuml", "stateflow", "yaml"} |-> "never"]
NoFiles == [k \in {"plantuml", "stateflow", "yaml"} |-> <<>>]

\* No run of main has started.
MainIdle ==
    /\ args = NoArgs
    /\ stdout = <<>>
    /\ stderr = <<>>
    /\ files = NoFiles
    /\ handles = NoHandles
    /\ error = Nothing
    /\ ran = <<>>
    /\ ret = "None"
    /\ exit_code = "None"

\* No generator was constructed by a caller.
NoGenerator == [kind |-> "None", calls |-> 0]
RenderIdle ==
    /\ generator = NoGenerator
    /\ previous = <<>>

Init ==
    /\ MainIdle
    /\ RenderIdle
    /\ impl \in Impls
    /\ current_file = PyNone
    /\ formatversion = PyNone
    /\ source = NoFile
    /\ outcome = Nothing
    /\ pc = "idle"
    /\ indent_level = 0
    /\ output = <<>>
    /\ gen = Nothing
    /\ reparsed = Nothing

\* fsm_parser.parse_string(data)
ParseString(data) ==
    /\ pc = "idle"
    /\ current_file' = PyStr("<string>")
    /\ LET r == parse_string(impl, formatversion, data) IN
        /\ outcome' = r.res
        /\ formatversion' = r.formatversion
    /\ source' = data
    /\ pc' = "parsed"
    /\ UNCHANGED <<impl, indent_level, output, gen, reparsed>>
    /\ UNCHANGED <<mainvars, rendervars>>

\* fsm_parser.parse_file("fsm.yaml"), the path holding file or nothing
ParseFile(file) ==
    /\ pc = "idle"
    /\ current_file' = PyStr("fsm.yaml")
    /\ LET r == parse_file(impl, formatversion, file) IN
        /\ outcome' = r.res
        /\ formatversion' = r.formatversion
    /\ source' = file
    /\ pc' = "parsed"
    /\ UNCHANGED <<impl, indent_level, output, gen, reparsed>>
    /\ UNCHANGED <<mainvars, rendervars>>

\* The caller drops what the calls gave it, the generator with it; the parser
\* instance lives on.
Discard ==
    /\ pc # "idle"
    /\ pc' = "idle"
    /\ source' = NoFile
    /\ outcome' = Nothing
    /\ indent_level' = 0
    /\ output' = <<>>
    /\ gen' = Nothing
    /\ reparsed' = Nothing
    /\ UNCHANGED <<impl, current_file, formatversion>>
    /\ UNCHANGED <<mainvars, rendervars>>

\* yaml_generator = FSM2YAMLGenerator(); yaml_generator.generate(fsm), at a time
\* of day now, to a stream that takes every line (fsmtool.py, main)
GenerateYaml(now) ==
    /\ pc = "parsed"
    /\ Returned(outcome)
    /\ LET g == yaml_generate_to_stream(0, outcome.val, now) IN
        /\ output' = g.out
        /\ indent_level' = g.ind
        /\ gen' = IF g.exc = "none" THEN Ok(PyNone) ELSE Raise(g.exc, "")
    /\ pc' = "rendered"
    /\ UNCHANGED <<impl, current_file, formatversion, source, outcome, reparsed>>
    /\ UNCHANGED <<mainvars, rendervars>>

\* fsm_parser.parse_string(text), text being what the generator wrote
Reparse ==
    /\ pc = "rendered"
    /\ current_file' = PyStr("<string>")
    /\ LET r == parse_string(impl, formatversion, Compose(output)) IN
        /\ reparsed' = r.res
        /\ formatversion' = r.formatversion
    /\ pc' = "reparsed"
    /\ UNCHANGED <<impl, source, outcome, indent_level, output, gen>>
    /\ UNCHANGED <<mainvars, rendervars>>

Next ==
    \/ \E data \in Texts : ParseString(data)
    \/ \E file \in Files : ParseFile(file)
    \/ \E now \in Times : GenerateYaml(now)
    \/ Reparse
    \/ Discard

Spec == Init /\ [][Next]_vars

-----------------------------------------------------------------------------
(* fsmtool.py: main() and the entry point.  A run reads its input (source:   *)
(* the text on standard input or in the file of args.file, NoFile when the   *)
(* path names no file), parses it with the FSMParser of fsmtool.py and calls *)
(* the generators the options select, in the order of the if statements.     *)
(* pc is the statement main is at: "parse", a step of Dispatch, "return",    *)
(* "except", "returned" (main has returned) and "exited".                    *)

\* The values argparse gives an output option: None without the option, True
\* for the option alone (nargs='?', const=True), FILE otherwise.
OptionValues(file) == {"None", "True", file}
Selected(v) == v # "None"
\* args.<option> if isinstance(args.<option>, str) else None
OutputFile(v) == IF v \in {"None", "True"} THEN "None" ELSE v

\* The runs of the model: every choice of the three generator options without
\* the other options, and every choice of generators to standard output with
\* the three other options given.
Args ==
    {[file |-> f, plantuml |-> p, autosar_c |-> "None", hpp_cpp |-> "None",
      stateflow |-> sf, yaml |-> y, analyze |-> "None"] :
        f \in {"-", "fsm.yaml"}, p \in OptionValues("out.puml"),
        sf \in OptionValues("out.m"), y \in OptionValues("out.yaml")}
    \cup
    {[file |-> f, plantuml |-> p, autosar_c |-> "True", hpp_cpp |-> "True",
      stateflow |-> sf, yaml |-> y, analyze |-> "True"] :
        f \in {"-", "fsm.yaml"}, p \in {"None", "True"},
        sf \in {"None", "True"}, y \in {"None", "True"}}

\* The transitions and states of the inputs of main.
SecondTransition ==
    YMap(<<Field("target_state", YStr("Idle")), Field("condition", YStr("halt")),
           Field("priority", YScalar("int", "2")),
           Field("on_transition", YSeq(<<YStr("a1"), YStr("a2")>>))>>)
BusyState ==
    StateNode(YStr("Running"), NoNode,
        <<Field("is_final", YScalar("bool", "true")),
          Field("on_entry", YSeq(<<YStr("a1"), YStr("a2")>>)),
          Field("do", YStr("beep")),
          Field("on_exit", YScalar("null", "")),
          Field("transitions", YSeq(<<SecondTransition>>))>>)
SourceState(name) ==
    StateNode(YStr(name), NoNode,
        <<Field("transitions", YSeq(<<GoodTransition, SecondTransition>>))>>)
\* A state with a transition under the condition "a && b" and no action, and
\* a transition under the condition "true" with two actions.
ConjunctionTransition ==
    YMap(<<Field("target_state", YStr("Idle")), Field("condition", YStr("a && b")),
           Field("priority", YScalar("int", "3"))>>)
AlwaysTransition ==
    YMap(<<Field("target_state", YStr("Idle")), Field("condition", YStr("true")),
           Field("priority", YScalar("int", "0")),
           Field("on_transition", YSeq(<<YStr(" a1 "), YStr("a2; ")>>))>>)
ArmedState ==
    StateNode(YStr("Armed"), NoNode,
        <<Field("transitions", YSeq(<<ConjunctionTransition, AlwaysTransition>>))>>)

\* The inputs of main: documents that parse (one state, no state, two states
\* with transitions, two states of one name, a state with the conditions
\* "a && b" and "true"), documents and texts that do not.
MainTexts ==
    {Document(YSeq(<<GoodState>>)),
     Document(YSeq(<<>>)),
     Document(YSeq(<<SourceState("Idle"), BusyState>>)),
     Document(YSeq(<<GoodState, SourceState("Idle")>>)),
     Document(YSeq(<<GoodState, ArmedState>>)),
     Document(YSeq(<<GoodState, Nameless>>)),
     Stream(<<YMap(<<Field("other", OtherBody)>>)>>),
     Stream(<<YMap(<<Field("fsmformat", YScalar("int", "0x1F")),
                     Field("statemachine", GoodBody)>>)>>),
     Malformed}

\* An order of the if statements with the Stateflow generator before the
\* PlantUML generator, which is not the order of main.
StateflowFirst == <<"stateflow", "autosar_c", "hpp_cpp", "plantuml", "yaml", "analyze">>

\* The order of the if statements of main after the parse.
Dispatch == <<"plantuml", "autosar_c", "hpp_cpp", "stateflow", "yaml", "analyze">>

\* The statement main goes to when the if statement of step is done.
After(step) ==
    LET i == CHOOSE j \in 1..Len(Dispatch) : Dispatch[j] = step IN
    IF i = Len(Dispatch) THEN "return" ELSE Dispatch[i + 1]

\* A line on sys.stdout, with the step of main that wrote it.
Written(by, line) == [by |-> by, line |-> line]

\* A block that closes the file only when it returns, as f.close() after the
\* write would; the with statement is not this.
close_on_return(h, kind, exc) == IF exc = "none" THEN [h EXCEPT ![kind] = "closed"] ELSE h

\* open(output_file, 'w') and the exit of the with statement, which closes the
\* file when the block returns and when it raises (exc).
open_w(h, kind) == [h EXCEPT ![kind] = "open"]
with_exit(h, kind, exc) == [h EXCEPT ![kind] = "closed"]

\* The lines of str(e): the message, and for a YAML error the mark under it.
str_lines(e) ==
    IF e.exc = "YAMLError" THEN <<e.msg, "  in \"<unicode string>\", line 1, column 1">>
    ELSE <<e.msg>>

\* The message of the exception a generator ends with.
GeneratorMessage(exc) ==
    CASE exc = "AttributeError" -> "object has no attribute"
      [] exc = "TypeError" -> "object is not iterable"
      [] OTHER -> ""

MainInit ==
    /\ MainIdle
    /\ RenderIdle
    /\ impl = "fsmtool"
    /\ current_file = PyNone
    /\ formatversion = PyNone
    /\ source = NoFile
    /\ outcome = Nothing
    /\ pc = "idle"
    /\ indent_level = 0
    /\ output = <<>>
    /\ gen = Nothing
    /\ reparsed = Nothing

\* parser_cli.parse_args() and FSMParser(): a run with the namespace a, text
\* being what standard input or the file of a.file holds
MainStart(a, text) ==
    /\ pc = "idle"
    /\ a.file = "-" => text # NoFile
    /\ args' = a
    /\ source' = text
    /\ pc' = "parse"
    /\ UNCHANGED <<impl, current_file, formatversion, outcome, indent_level, output, gen,
                   reparsed, stdout, stderr, files, handles, error, ran, ret, exit_code>>
    /\ UNCHANGED rendervars

\* fsm = fsm_parser.parse_string(sys.stdin.read()), or parse_file(args.file)
MainParse ==
    /\ pc = "parse"
    /\ current_file' = PyStr(IF args.file = "-" THEN "<string>" ELSE args.file)
    /\ LET r == IF args.file = "-" THEN parse_string("fsmtool", formatversion, source)
                ELSE parse_file("fsmtool", formatversion, source)
       IN  /\ outcome' = r.res
           /\ formatversion' = r.formatversion
           /\ error' = IF Returned(r.res) THEN error ELSE r.res
           /\ pc' = IF Returned(r.res) THEN Dispatch[1] ELSE "except"
    /\ UNCHANGED <<impl, source, indent_level, output, gen, reparsed,
                   args, stdout, stderr, files, handles, ran, ret, exit_code>>
    /\ UNCHANGED rendervars

\* The format string of the print call that ends generate(fsm, output_file).
GeneratedFile(kind) ==
    CASE kind = "plantuml" -> "Generated PlantUML file: {}"
      [] kind = "stateflow" -> "Generated Matlab file: {}"
      [] kind = "yaml" -> "Generated YAML file: {}"

\* generate(fsm, output_file) of the generator of kind, g being what
\* _generate_to_stream does on the stream: the file is opened, written and
\* closed when output_file is a name, sys.stdout is written otherwise;
\* "Generated file: ..." is printed after the with statement.
Generate(kind, output_file, g) ==
    /\ files' = IF output_file # "None" THEN [files EXCEPT ![kind] = g.out] ELSE files
    /\ handles' = IF output_file # "None"
                  THEN with_exit(open_w(handles, kind), kind, g.exc)
                  ELSE handles
    /\ stdout' =
        IF output_file = "None"
        THEN stdout \o [i \in 1..Len(g.out) |-> Written(kind, g.out[i])]
        ELSE IF g.exc = "none"
        THEN Append(stdout, Written(kind, Line2(0, GeneratedFile(kind), <<output_file>>)))
        ELSE stdout
    /\ ran' = Append(ran, [kind |-> kind, exc |-> g.exc])
    /\ error' = IF g.exc = "none" THEN error ELSE Raise(g.exc, GeneratorMessage(g.exc))
    /\ pc' = IF g.exc = "none" THEN After(kind) ELSE "except"

\* if args.<kind>: <Generator>().generate(fsm, output file or None), at the
\* time of day now
MainGenerate(kind, now) ==
    /\ pc = kind
    /\ IF ~Selected(args[kind])
       THEN /\ pc' = After(kind)
            /\ UNCHANGED <<stdout, files, handles, error, ran>>
       ELSE Generate(kind, OutputFile(args[kind]),
                     generate_to_stream(kind, 0, outcome.val, now))
    /\ UNCHANGED <<libvars_but_pc, args, stderr, ret, exit_code>>
    /\ UNCHANGED rendervars

MainPlantUML(now) ==
    /\ pc = "plantuml"
    /\ MainGenerate("plantuml", now)
MainStateflow(now) ==
    /\ pc = "stateflow"
    /\ MainGenerate("stateflow", now)
MainYaml(now) ==
    /\ pc = "yaml"
    /\ MainGenerate("yaml", now)

\* if args.<option>: write_output("... not supported yet.\n", None), which
\* prints the text and the empty line after its newline
MainStub(option, text) ==
    /\ pc = option
    /\ stdout' = IF Selected(args[option])
                 THEN stdout \o <<Written(option, Line2(0, "text", <<text>>)),
                                  Written(option, Line2(0, "blank", <<>>))>>
                 ELSE stdout
    /\ pc' = After(option)
    /\ UNCHANGED <<libvars_but_pc, args, stderr, files, handles, error, ran, ret, exit_code>>
    /\ UNCHANGED rendervars

MainAutosarC ==
    /\ pc = "autosar_c"
    /\ MainStub("autosar_c", "AUTOSAR C code generation not supported yet.")
MainHppCpp ==
    /\ pc = "hpp_cpp"
    /\ MainStub("hpp_cpp", "HPP C++ code generation not supported yet.")
MainAnalyze ==
    /\ pc = "analyze"
    /\ MainStub("analyze", "FSM analysis not supported yet.")

\* return 0
MainReturn ==
    /\ pc = "return"
    /\ ret' = "0"
    /\ pc' = "returned"
    /\ UNCHANGED <<libvars_but_pc, args, stdout, stderr, files, handles, error, ran, exit_code>>
    /\ UNCHANGED rendervars

\* except Exception as e: print(f"Error: {e}", file=sys.stderr); return 1
MainExcept ==
    /\ pc = "except"
    /\ stderr' = stderr \o str_lines(error)
    /\ ret' = "1"
    /\ pc' = "returned"
    /\ UNCHANGED <<libvars_but_pc, args, stdout, files, handles, error, ran, exit_code>>
    /\ UNCHANGED rendervars

\* if __name__ == "__main__": main() - the value main returned is dropped and
\* the interpreter ends with status 0
Exit ==
    /\ pc = "returned"
    /\ exit_code' = "0"
    /\ pc' = "exited"
    /\ UNCHANGED <<libvars_but_pc, args, stdout, stderr, files, handles, error, ran, ret>>
    /\ UNCHANGED rendervars

MainNext ==
    \/ \E a \in Args, text \in MainTexts \cup {NoFile} : MainStart(a, text)
    \/ MainParse
    \/ \E now \in Times : MainPlantUML(now)
    \/ MainAutosarC
    \/ MainHppCpp
    \/ \E now \in Times : MainStateflow(now)
    \/ \E now \in Times : MainYaml(now)
    \/ MainAnalyze
    \/ MainReturn
    \/ MainExcept
    \/ Exit

MainSpec == MainInit /\ [][MainNext]_vars

-----------------------------------------------------------------------------
(* A caller that renders one Fsm several times: it parses a text with the    *)
(* FSMParser of fsmtool.py, makes generator objects and calls generate on    *)
(* them, on a new object or on the one it called before.  indent_level is    *)
(* the attribute of the current generator object.                            *)

\* The generate calls of a run of the model.
MaxCalls == 3

RenderInit ==
    /\ MainIdle
    /\ RenderIdle
    /\ impl = "fsmtool"
    /\ current_file = PyNone
    /\ formatversion = PyNone
    /\ source = NoFile
    /\ outcome = Nothing
    /\ pc = "idle"
    /\ indent_level = 0
    /\ output = <<>>
    /\ gen = Nothing
    /\ reparsed = Nothing

\* fsm = FSMParser().parse_string(data)
RenderParse(data) ==
    /\ pc = "idle"
    /\ current_file' = PyStr("<string>")
    /\ LET r == parse_string("fsmtool", formatversion, data) IN
        /\ outcome' = r.res
        /\ formatversion' = r.formatversion
    /\ source' = data
    /\ pc' = "parsed"
    /\ UNCHANGED <<impl, indent_level, output, gen, reparsed>>
    /\ UNCHANGED <<mainvars, rendervars>>

\* generator = FSM2PlantUMLGenerator(), FSM2StateflowGenerator() or
\* FSM2YAMLGenerator(): __init__ sets indent_level to 0
NewGenerator(kind) ==
    /\ pc = "parsed"
    /\ Returned(outcome)
    /\ generator' = [kind |-> kind, calls |-> 0]
    /\ indent_level' = 0
    /\ UNCHANGED <<impl, current_file, formatversion, source, outcome, pc, output, gen,
                   reparsed, previous>>
    /\ UNCHANGED mainvars

\* obj.description = text, on an instance of a dataclass that declares no
\* such field: the instance gets the attribute.
SetDescription(obj, text) ==
    [f \in DOMAIN obj \cup {"description"} |-> IF f = "description" THEN PyStr(text) ELSE obj[f]]

\* The state with a description, and one on each of its transitions.
DescribedState(state) ==
    SetDescription(
        [state EXCEPT !.transitions =
            [k \in 1..Len(state.transitions) |-> SetDescription(state.transitions[k], "leave")]],
        "waiting")

\* The caller gives the Fsm, its states and their transitions the attribute
\* description, which the YAML and PlantUML generators read.
Describe ==
    /\ pc = "parsed"
    /\ Returned(outcome)
    /\ ~HasAttr(outcome.val, "description")
    /\ outcome' = Ok(SetDescription(
                        [outcome.val EXCEPT !.states =
                            [j \in 1..Len(outcome.val.states) |->
                                DescribedState(outcome.val.states[j])]],
                        "a lamp"))
    /\ UNCHANGED <<impl, current_file, formatversion, source, pc, indent_level, output, gen,
                   reparsed>>
    /\ UNCHANGED <<mainvars, rendervars>>

\* What a generate call leaves: the lines on the stream, indent_level, and
\* the call in the record of calls.
Rendered(g) ==
    /\ output' = g.out
    /\ indent_level' = g.ind
    /\ gen' = IF g.exc = "none" THEN Ok(PyNone) ELSE Raise(g.exc, GeneratorMessage(g.exc))
    /\ generator' = [generator EXCEPT !.calls = @ + 1]
    /\ previous' = Append(previous, [kind |-> generator.kind, call |-> generator.calls + 1,
                                     out |-> g.out])

\* generator.generate(fsm), at the time of day now; an exception it raises is
\* caught by the caller
RenderGenerate(now) ==
    /\ pc = "parsed"
    /\ generator.kind \in Kinds
    /\ Len(previous) < MaxCalls
    /\ Rendered(generate_to_stream(generator.kind, indent_level, outcome.val, now))
    /\ UNCHANGED <<impl, current_file, formatversion, source, outcome, pc, reparsed>>
    /\ UNCHANGED mainvars

RenderNext ==
    \/ \E data \in MainTexts : RenderParse(data)
    \/ Describe
    \/ \E kind \in Kinds : NewGenerator(kind)
    \/ \E now \in Times : RenderGenerate(now)

RenderSpec == RenderInit /\ [][RenderNext]_vars

(***************************************************************************)
(* A caller of the two text functions of the Stateflow generator: it holds *)
(* a condition text or a list of action texts and hands it to              *)
(* _convert_condition or to _format_actions.                               *)
(***************************************************************************)

MaxTokens == 3
MaxActions == 2

RECURSIVE Concats(_, _)
\* The texts made of at most n of the pieces, one after the other.
Concats(pieces, n) ==
    IF n = 0 THEN {<<>>}
    ELSE Concats(pieces, n - 1) \cup {a \o b : a \in Concats(pieces, n - 1), b \in pieces}

ConditionPieces ==
    {<<"&">>, <<"|">>, <<"=">>, <<" ">>, <<"a">>, <<"T">>,
     <<"T", "r", "u", "e">>, <<"F", "a", "l", "s", "e">>}
ConditionTexts == Concats(ConditionPieces, MaxTokens)

ActionPieces == {<<"a">>, <<";">>, <<" ">>}
ActionTexts == Concats(ActionPieces, MaxTokens)
ActionLists == SeqsUpTo(ActionTexts, MaxActions)

TextInit ==
    /\ MainIdle
    /\ RenderIdle
    /\ impl = "fsmtool"
    /\ current_file = PyNone
    /\ formatversion = PyNone
    /\ outcome = Nothing
    /\ indent_level = 0
    /\ output = <<>>
    /\ gen = Nothing
    /\ reparsed = Nothing
    /\ \/ pc = "condition" /\ source \in ConditionTexts
       \/ pc = "actions" /\ source \in ActionLists

\* self._convert_condition(condition)
ConvertCondition ==
    /\ pc = "condition"
    /\ output' = _convert_condition(source)
    /\ pc' = "converted"
    /\ UNCHANGED <<impl, current_file, formatversion, source, outcome,
                   indent_level, gen, reparsed>>
    /\ UNCHANGED <<mainvars, rendervars>>

\* self._format_actions(actions)
FormatActions ==
    /\ pc = "actions"
    /\ output' = _format_actions(source)
    /\ pc' = "formatted"
    /\ UNCHANGED <<impl, current_file, formatversion, source, outcome,
                   indent_level, gen, reparsed>>
    /\ UNCHANGED <<mainvars, rendervars>>

TextNext == ConvertCondition \/ FormatActions

TextSpec == TextInit /\ [][TextNext]_vars

-----------------------------------------------------------------------------
(* What a document says, read off the document itself *)

YIsMap(n) == n.k = "map"
YIsSeq(n) == n.k = "seq"
YIsScalar(n) == n.k = "scalar"

YHasKey(m, key) == \E i \in 1..Len(m.entries) : m.entries[i][1] = YStr(key)
YValue(m, key) ==
    m.entries[CHOOSE i \in 1..Len(m.entries) : m.entries[i][1] = YStr(key)][2]
DistinctKeys(m) ==
    \A i, j \in 1..Len(m.entries) : m.entries[i][1] = m.entries[j][1] => i = j

\* The mapping elements of a sequence node, in order; none for any other node.
MappingItems(n) == IF YIsSeq(n) THEN SelectSeq(n.items, YIsMap) ELSE <<>>

\* The mapping elements under a key of a mapping.
ItemsUnder(m, key) == IF YHasKey(m, key) THEN MappingItems(YValue(m, key)) ELSE <<>>

FsmRequired == <<"name", "version", "initial_state", "states">>
StateRequired == <<"name">>
TransitionRequired == <<"target_state", "condition", "priority">>

\* The first of the keys req that the mapping m lacks, "" when it has them all.
FirstMissing(m, req) ==
    LET lacks(key) == ~YHasKey(m, key)
        missing == SelectSeq(req, lacks)
    IN  IF missing = <<>> THEN "" ELSE missing[1]

\* A document of one root mapping that holds the FSM body under 'statemachine'
\* where the format puts it: as the only key, or right after 'fsmformat'.
IsDocument(text) == text.k = "stream" /\ Len(text.docs) > 0
Root(text) == text.docs[1]
WellPlaced(text) ==
    /\ IsDocument(text)
    /\ ~BuildRaises(Root(text))
    /\ YIsMap(Root(text))
    /\ DistinctKeys(Root(text))
    /\ \/ Len(Root(text).entries) = 1 /\ Root(text).entries[1][1] = YStr("statemachine")
       \/ /\ Len(Root(text).entries) = 2
          /\ Root(text).entries[1][1] = YStr("fsmformat")
          /\ Root(text).entries[2][1] = YStr("statemachine")
    /\ YIsMap(YValue(Root(text), "statemachine"))
    /\ DistinctKeys(YValue(Root(text), "statemachine"))
BodyOf(text) == YValue(Root(text), "statemachine")

\* A violation: the level it is at, the field that is missing, and the places
\* of the state and of the transition among the elements of their sequences.
Violation(level, field, state, transition) ==
    [level |-> level, field |-> field, state |-> state, transition |-> transition]
NoViolation == Violation("none", "", 0, 0)

RECURSIVE TransitionsViolation(_, _, _), StatesViolation(_, _)

\* The first violation among the transitions of state s from element j on.
TransitionsViolation(items, s, j) ==
    IF j > Len(items) THEN NoViolation
    ELSE IF YIsMap(items[j]) /\ FirstMissing(items[j], TransitionRequired) # ""
    THEN Violation("transition", FirstMissing(items[j], TransitionRequired), s, j)
    ELSE TransitionsViolation(items, s, j + 1)

\* The first violation among the states from element s on, each state before
\* its transitions.
StatesViolation(items, s) ==
    IF s > Len(items) THEN NoViolation
    ELSE IF ~YIsMap(items[s]) THEN StatesViolation(items, s + 1)
    ELSE IF FirstMissing(items[s], StateRequired) # ""
    THEN Violation("state", FirstMissing(items[s], StateRequired), s, 0)
    ELSE LET trs == IF YHasKey(items[s], "transitions") /\ YIsSeq(YValue(items[s], "transitions"))
                    THEN YValue(items[s], "transitions").items ELSE <<>>
             v == TransitionsViolation(trs, s, 1)
         IN  IF v # NoViolation THEN v ELSE StatesViolation(items, s + 1)

\* The first violation of an FSM body in traversal order.
BodyViolation(b) ==
    IF FirstMissing(b, FsmRequired) # "" THEN Violation("fsm", FirstMissing(b, FsmRequired), 0, 0)
    ELSE IF YIsSeq(YValue(b, "states")) THEN StatesViolation(YValue(b, "states").items, 1)
    ELSE NoViolation

\* The first violation of a text that is a YAML stream, in traversal order:
\* root, FSM fields, then each state in order with its transitions in order.
FirstViolation(text) ==
    IF Len(text.docs) = 0 THEN Violation("stream", "", 0, 0)
    ELSE IF ~YIsMap(Root(text)) THEN Violation("root", "", 0, 0)
    ELSE IF ~YHasKey(Root(text), "statemachine") THEN Violation("root", "statemachine", 0, 0)
    ELSE IF ~YIsMap(YValue(Root(text), "statemachine")) THEN Violation("body", "", 0, 0)
    ELSE BodyViolation(YValue(Root(text), "statemachine"))

\* The message the parser has for a violation at a level.
Message(level, field) ==
    CASE level = "stream" -> "Empty FSM file"
      [] level = "root" /\ field = "" -> "FSM file must contain a mapping at root"
      [] level = "root" /\ field = "statemachine" ->
            "FSM definition must start with the 'statemachine' key"
      [] level = "body" -> "FSM definition must be a mapping"
      [] level = "fsm" /\ field = "name" -> "FSM must have a 'name' field"
      [] level = "fsm" /\ field = "version" -> "FSM must have a 'version' field"
      [] level = "fsm" /\ field = "initial_state" -> "FSM must have an 'initial_state' field"
      [] level = "fsm" /\ field = "states" -> "FSM must have a 'states' field"
      [] level = "state" /\ field = "name" -> "A state must have a 'name' field"
      [] level = "transition" /\ field = "target_state" ->
            "Transition must have a 'target_state' field"
      [] level = "transition" /\ field = "condition" ->
            "Transition must have a 'condition' field"
      [] level = "transition" /\ field = "priority" ->
            "Transition must have a 'priority' field"
      [] OTHER -> ""

StructureMessages ==
    {Message("root", "statemachine"), Message("body", "")}

\* The description an object parsed from the mapping m is to have.
DescriptionOf(m) ==
    IF YHasKey(m, "description") THEN ScalarValue(YValue(m, "description"))
    ELSE PyStr("No description")

\* The YAML key of each action field of a state and of a transition.
StateActionKeys ==
    {<<"on_entry", "on_entry_actions">>, <<"do", "do_actions">>, <<"on_exit", "on_exit_actions">>}
TransitionActionKeys == {<<"on_transition", "on_transition_actions">>}

IsNullNode(n) == YIsScalar(n) /\ ScalarValue(n) = PyNone

\* The sequence an action field is to hold for the node the input gives it.
ActionsOf(n) ==
    IF YIsSeq(n) THEN PyList([i \in 1..Len(n.items) |-> ScalarValue(n.items[i])])
    ELSE IF IsNullNode(n) THEN PyList(<<>>)
    ELSE PyList(<<ScalarValue(n)>>)

Parsed == pc = "parsed" /\ Returned(outcome)

\* The parsed objects stand one for one for the mappings of the document.
StatesMatch(text, fsm) == Len(fsm.states) = Len(ItemsUnder(BodyOf(text), "states"))
TransitionsMatch(m, state) == Len(state.transitions) = Len(ItemsUnder(m, "transitions"))

-----------------------------------------------------------------------------
(* The claims *)

\* C1: round-trip law - for every document that parse accepts, rendering the
\* Fsm with the YAML generator succeeds, and parsing what it wrote succeeds
\* and gives an Fsm equal to the first one field by field.
C1_RoundTrip ==
    /\ pc = "rendered" => Returned(gen)
    /\ pc = "reparsed" => /\ Returned(gen)
                          /\ Returned(reparsed)
                          /\ reparsed.val = outcome.val

\* C1, the failing case: parse (of fsmtool.py) accepted the document of one
\* state without actions or transitions, and the generator raised an
\* AttributeError with its indentation one level deep.
C1_GeneratorRaises ==
    /\ pc = "rendered"
    /\ source = Document(YSeq(<<GoodState>>))
    /\ gen.exc = "AttributeError"
    /\ indent_level = 1

\* C2: in every Fsm returned by parse, a state's is_initial is true if and only
\* if its name equals the Fsm's initial_state, whatever the document gave for
\* the state's is_initial key.
C2_IsInitialIffNamed ==
    Parsed =>
        \A j \in 1..Len(outcome.val.states) :
            LET s == outcome.val.states[j] IN
            (s.is_initial = PyTrue) <=> PyEq(s.name, outcome.val.initial_state)

\* C2, the failing case: a state named Running, in an Fsm whose initial_state
\* is Idle, that the document gave is_initial: true is returned as initial.
C2_ExplicitInitialKept ==
    /\ Parsed
    /\ source = Document(YSeq(<<GoodState, StateNode(YStr("Running"), YScalar("bool", "true"), <<>>)>>))
    /\ outcome.val.initial_state = PyStr("Idle")
    /\ outcome.val.states[2].name = PyStr("Running")
    /\ outcome.val.states[2].is_initial = PyTrue

\* C3: for every document whose root is a mapping with a statemachine mapping
\* that has all required fields at FSM, state and transition level, parse
\* raises nothing and returns an Fsm whose description, and that of each state
\* and each transition, is the input value or 'No description' when absent,
\* and whose version is the input value as a string.
C3_ParsePopulatesEveryField ==
    pc = "parsed" /\ WellPlaced(source) /\ FirstViolation(source) = NoViolation =>
        /\ Returned(outcome)
        /\ HasAttr(outcome.val, "description")
        /\ outcome.val.description = DescriptionOf(BodyOf(source))
        /\ outcome.val.version = str(ScalarValue(YValue(BodyOf(source), "version")))
        /\ StatesMatch(source, outcome.val)
        /\ \A j \in 1..Len(outcome.val.states) :
            LET s == outcome.val.states[j]
                m == ItemsUnder(BodyOf(source), "states")[j]
            IN  /\ HasAttr(s, "description")
                /\ s.description = DescriptionOf(m)
                /\ TransitionsMatch(m, s)
                /\ \A k \in 1..Len(s.transitions) :
                    /\ HasAttr(s.transitions[k], "description")
                    /\ s.transitions[k].description
                         = DescriptionOf(ItemsUnder(m, "transitions")[k])

\* C3, the failing case: parse (of fsmparser.py) raises TypeError on a document
\* that has every required field.
C3_ParseRaisesTypeError ==
    /\ pc = "parsed"
    /\ impl = "fsmparser"
    /\ source = Document(YSeq(<<GoodState>>))
    /\ outcome.exc = "TypeError"

\* C4: for on_entry, do, on_exit of a state and on_transition of a transition,
\* a single scalar in the input gives a one-element sequence holding that
\* scalar after parse, and a sequence in the input gives that sequence in the
\* same order.
C4_ScalarActionCoerced ==
    Parsed /\ WellPlaced(source) /\ StatesMatch(source, outcome.val) =>
        \A j \in 1..Len(outcome.val.states) :
            LET s == outcome.val.states[j]
                m == ItemsUnder(BodyOf(source), "states")[j]
            IN  /\ \A f \in StateActionKeys :
                    YHasKey(m, f[1]) /\ ~IsNullNode(YValue(m, f[1])) =>
                        s[f[2]] = ActionsOf(YValue(m, f[1]))
                /\ TransitionsMatch(m, s)
                /\ \A k \in 1..Len(s.transitions) :
                    LET n == ItemsUnder(m, "transitions")[k] IN
                    \A f \in TransitionActionKeys :
                        YHasKey(n, f[1]) /\ ~IsNullNode(YValue(n, f[1])) =>
                            s.transitions[k][f[2]] = ActionsOf(YValue(n, f[1]))

\* C4, the failing case: 'do: beep' on a state gives the string beep, not a
\* sequence.
C4_ScalarActionKept ==
    /\ Parsed
    /\ WellPlaced(source)
    /\ Len(outcome.val.states) = 1
    /\ ItemsUnder(BodyOf(source), "states") # <<>>
    /\ YHasKey(ItemsUnder(BodyOf(source), "states")[1], "do")
    /\ YValue(ItemsUnder(BodyOf(source), "states")[1], "do") = YStr("beep")
    /\ outcome.val.states[1].do_actions = PyStr("beep")

\* C5: in every Fsm returned by parse the action fields of every state and of
\* every transition are sequences and never null; an absent key gives an empty
\* sequence, and so does a key present with a null value.
C5_ActionsNeverNull ==
    Parsed =>
        /\ \A j \in 1..Len(outcome.val.states) :
            LET s == outcome.val.states[j] IN
            /\ \A f \in StateActionKeys : s[f[2]].t = "list"
            /\ \A k \in 1..Len(s.transitions) :
                \A f \in TransitionActionKeys : s.transitions[k][f[2]].t = "list"
        /\ WellPlaced(source) /\ StatesMatch(source, outcome.val) =>
            \A j \in 1..Len(outcome.val.states) :
                LET s == outcome.val.states[j]
                    m == ItemsUnder(BodyOf(source), "states")[j]
                IN  \A f \in StateActionKeys :
                        ~YHasKey(m, f[1]) \/ IsNullNode(YValue(m, f[1])) =>
                            s[f[2]] = PyList(<<>>)

\* C5, the failing case: 'on_entry:' with a null value on a state gives None.
C5_NullActionKept ==
    /\ Parsed
    /\ WellPlaced(source)
    /\ Len(outcome.val.states) = 1
    /\ ItemsUnder(BodyOf(source), "states") # <<>>
    /\ YHasKey(ItemsUnder(BodyOf(source), "states")[1], "on_entry")
    /\ IsNullNode(YValue(ItemsUnder(BodyOf(source), "states")[1], "on_entry"))
    /\ outcome.val.states[1].on_entry_actions = PyNone

\* Two violations of the same field in different contexts.
OtherContext(v, w) ==
    /\ w.level = v.level
    /\ w.field = v.field
    /\ <<w.state, w.transition>> # <<v.state, v.transition>>

\* C6: when a state mapping lacks name, or a transition mapping lacks
\* target_state, condition or priority, parse raises a parse error whose
\* message names the missing field and identifies the context (which state,
\* which transition): the same field missing in another context gives another
\* message.
C6_MessageNamesFieldAndContext ==
    pc = "parsed" /\ WellPlaced(source)
        /\ FirstViolation(source).level \in {"state", "transition"} =>
        LET v == FirstViolation(source) IN
        /\ outcome.exc = "FSMParseError"
        /\ outcome.msg = Message(v.level, v.field)
        /\ \A d \in Documents :
            WellPlaced(d) /\ OtherContext(v, FirstViolation(d)) =>
                parse_string(impl, formatversion, d).res.msg # outcome.msg

\* C6, the failing case: the second state lacks name, and the message is the
\* one a first state that lacks name gets.
C6_MessageWithoutContext ==
    /\ pc = "parsed"
    /\ source = Document(YSeq(<<GoodState, Nameless>>))
    /\ outcome.exc = "FSMParseError"
    /\ outcome.msg = "A state must have a 'name' field"
    /\ parse_string(impl, formatversion, Document(YSeq(<<Nameless>>))).res.msg = outcome.msg

\* C7: when the FSM body lacks any of name, version, initial_state, states,
\* parse raises a parse error naming the first of them that is missing, in
\* that order, before any state or transition is examined; a body that lacks
\* only description is accepted.
C7_FsmFieldsThenAccept ==
    pc = "parsed" /\ WellPlaced(source) =>
        LET missing == FirstMissing(BodyOf(source), FsmRequired) IN
        /\ missing # "" => /\ outcome.exc = "FSMParseError"
                            /\ outcome.msg = Message("fsm", missing)
        /\ (/\ missing = ""
            /\ ~YHasKey(BodyOf(source), "description")
            /\ FirstViolation(source) = NoViolation) => Returned(outcome)

\* C7, the failing case: a body with the four required fields and no
\* description is not accepted by parse (of fsmparser.py).
C7_BodyWithoutDescriptionRefused ==
    /\ pc = "parsed"
    /\ impl = "fsmparser"
    /\ WellPlaced(source)
    /\ BodyOf(source)
        = YMap(Keep(BodyFields(YSeq(<<GoodState>>)), {"name", "version", "initial_state", "states"}))
    /\ ~Returned(outcome)

\* C8: parse raises a structure error exactly when the root has no
\* statemachine key or that key's value is not a mapping, and otherwise parses
\* that key's value, wherever statemachine stands among the root keys and
\* whether fsmformat comes before or after it.
C8_BodyIsStatemachineValue ==
    (/\ pc = "parsed"
     /\ IsDocument(source)
     /\ ~BuildRaises(Root(source))
     /\ YIsMap(Root(source))
     /\ DistinctKeys(Root(source))) =>
        LET structural == \/ ~YHasKey(Root(source), "statemachine")
                          \/ ~YIsMap(YValue(Root(source), "statemachine"))
        IN  /\ structural <=> (outcome.exc = "FSMParseError" /\ outcome.msg \in StructureMessages)
            /\ ~structural =>
                LET expected == _parse_fsm(impl, _build_ast_node(YValue(Root(source), "statemachine")))
                IN  /\ outcome.exc = expected.exc
                    /\ outcome.msg = expected.msg
                    /\ Returned(expected) => outcome.val = expected.val

\* C8, the failing case: statemachine holds a mapping and fsmformat comes after
\* it, and parse raises the structure error.
C8_FormatAfterBodyRefused ==
    /\ pc = "parsed"
    /\ source = Stream(<<YMap(<<Field("statemachine", GoodBody), Field("fsmformat", YStr("0.2"))>>)>>)
    /\ outcome.exc = "FSMParseError"
    /\ outcome.msg = "FSM definition must be a mapping"

\* C9: every failure of parse_file or parse_string reaches the caller as an
\* FSMParseError, a YAML syntax error and a file that does not exist included.
C9_EveryFailureIsFSMParseError ==
    pc = "parsed" /\ ~Returned(outcome) => outcome.exc = "FSMParseError"

\* C9, the failing case: a malformed text and a missing file reach the caller
\* as the exceptions of the YAML library and of open().
C9_UnderlyingExceptionSurfaces ==
    /\ pc = "parsed"
    /\ \/ source = Malformed /\ outcome.exc = "YAMLError"
       \/ source = NoFile /\ outcome.exc = "FileNotFoundError"

\* C10: for every document with at least one validation violation, parse
\* raises at the first violation in traversal order (root, FSM fields, then
\* each state in order with its transitions in order) and returns no Fsm.
C10_FailFast ==
    (/\ pc = "parsed"
     /\ source.k = "stream"
     /\ Len(source.docs) > 0 => ~BuildRaises(Root(source))
     /\ FirstViolation(source) # NoViolation) =>
        LET v == FirstViolation(source) IN
        /\ ~Returned(outcome)
        /\ outcome.exc = "FSMParseError"
        /\ outcome.msg = Message(v.level, v.field)

\* C10, the failing case: the body under statemachine lacks name, and parse
\* returns the Fsm of the mapping under the root's first key.
C10_FsmFromAnotherKey ==
    /\ Parsed
    /\ source.k = "stream"
    /\ FirstViolation(source) = Violation("fsm", "name", 0, 0)
    /\ outcome.val.name = PyStr("Other")

-----------------------------------------------------------------------------
(* What a run of the driver did, read off its record *)

\* The generators that raised, by their place in ran.
RaisedAt == {i \in 1..Len(ran) : ran[i].exc # "none"}
\* The kinds of generator main called, in the order of the calls.
KindsRan == [i \in 1..Len(ran) |-> ran[i].kind]
\* The generators the command line selects.
SelectedKinds == {k \in Kinds : Selected(args[k])}
\* Parsing and every selected generator succeeded.
RunSucceeded ==
    /\ Returned(outcome)
    /\ RaisedAt = {}
    /\ \A k \in SelectedKinds : \E i \in 1..Len(ran) : ran[i].kind = k
\* Parsing or a selected generator raised.
RunFailed == outcome.exc \notin {"none", "none yet"} \/ RaisedAt # {}

\* C11: the driver process exits with code 0 when parsing and every selected
\* generator succeed, and with code 1 when parsing or a selected generator
\* raises, the error message then being on stderr.
C11_ExitCodes ==
    pc = "exited" =>
        /\ RunSucceeded => exit_code = "0"
        /\ RunFailed => exit_code = "1" /\ stderr # <<>>

\* C11, the failing case: parsing raised, main printed the error and returned
\* 1, and the process ended with status 0.
C11_FailureExitsZero ==
    /\ pc = "exited"
    /\ ~Returned(outcome)
    /\ ret = "1"
    /\ stderr # <<>>
    /\ exit_code = "0"

\* C12: the driver aborts on the first error: when parsing raises no generator
\* runs, when a generator raises none after it runs; main then prints one
\* error line and returns 1; main returns 0 only when parsing and every
\* selected generator completed.
C12_AbortOnFirstError ==
    pc \in {"returned", "exited"} =>
        /\ ~Returned(outcome) => ran = <<>>
        /\ \A i \in RaisedAt : i = Len(ran)
        /\ RunFailed => ret = "1" /\ Len(stderr) = 1
        /\ ret = "0" => RunSucceeded

\* C12, the failing case: the text is no YAML, the YAML library's error has
\* its mark in a line of its own, and main printed both lines.
C12_SeveralErrorLines ==
    /\ pc = "returned"
    /\ source = Malformed
    /\ outcome.exc = "YAMLError"
    /\ ran = <<>>
    /\ ret = "1"
    /\ Len(stderr) > 1

\* The place of a step in the claimed order of the generators, and in the
\* order of the if statements of main.
GeneratorOrder == <<"plantuml", "stateflow", "yaml">>
GeneratorRank(kind) == CHOOSE j \in 1..Len(GeneratorOrder) : GeneratorOrder[j] = kind
StepRank(step) ==
    CHOOSE j \in 1..6 :
        <<"plantuml", "autosar_c", "hpp_cpp", "stateflow", "yaml", "analyze">>[j] = step

\* The lines on sys.stdout that the step by wrote.
StdoutOf(by) ==
    LET mine(w) == w.by = by
        ws == SelectSeq(stdout, mine)
    IN  [i \in 1..Len(ws) |-> ws[i].line]
\* What the generator of kind wrote: its file, or its lines on sys.stdout.
OutputOf(kind) == IF OutputFile(args[kind]) # "None" THEN files[kind] ELSE StdoutOf(kind)

\* C13: in every run parsing completes before a generator starts, the selected
\* generators run one at a time in the order PlantUML, Stateflow, YAML, each
\* finishing its whole output before the next starts, and the outputs of two
\* generators are never interleaved.
C13_SequentialPipeline ==
    /\ (ran # <<>> \/ stdout # <<>>) => Returned(outcome)
    /\ \A i \in 1..Len(ran) : ran[i].kind \in SelectedKinds
    /\ \A i, j \in 1..Len(ran) :
        i < j => /\ GeneratorRank(ran[i].kind) < GeneratorRank(ran[j].kind)
                 /\ ran[i].exc = "none"
                 /\ OutputOf(ran[i].kind) # <<>>
                 /\ OutputOf(ran[i].kind)[Len(OutputOf(ran[i].kind))].kind = "comment_rule"
    /\ \A i, j \in 1..Len(stdout) :
        i < j => StepRank(stdout[i].by) <= StepRank(stdout[j].by)

\* C13, its case: the Stateflow generator wrote its whole script to standard
\* output, and the YAML generator ran after it and wrote there too.
C13_StateflowThenYaml ==
    /\ Len(ran) = 2
    /\ ran[1] = [kind |-> "stateflow", exc |-> "none"]
    /\ ran[2].kind = "yaml"
    /\ StdoutOf("stateflow") # <<>>
    /\ StdoutOf("yaml") # <<>>
    /\ Len(outcome.val.states) = 2

\* What the generator of kind writes for the Fsm of the run when it is the
\* only generator, at some time of day.
AloneOutputs(kind) == {generate_to_stream(kind, 0, outcome.val, now).out : now \in Times}

\* C14: generators cannot affect each other: in a finished run with a parsed
\* Fsm, what a selected generator wrote is what it writes when it is the only
\* generator selected, whatever the other selected generators did.
C14_GeneratorsIndependent ==
    (pc \in {"returned", "exited"} /\ Returned(outcome)) =>
        \A k \in SelectedKinds : OutputOf(k) \in AloneOutputs(k)

\* C14, the failing case: PlantUML and Stateflow are selected, the PlantUML
\* generator raised, and the Stateflow generator, which writes its whole script
\* when selected alone, wrote nothing.
C14_StateflowSilenced ==
    /\ pc = "returned"
    /\ Returned(outcome)
    /\ {"plantuml", "stateflow"} \subseteq SelectedKinds
    /\ KindsRan = <<"plantuml">>
    /\ RaisedAt = {1}
    /\ OutputOf("stateflow") = <<>>
    /\ \A out \in AloneOutputs("stateflow") : out # <<>>

\* C15: no generator raises on an Fsm the parser of fsmtool.py returned: each
\* of the generators main called on it completed.
C15_NoRendererRaises ==
    \A i \in 1..Len(ran) : Returned(outcome) /\ ran[i].exc = "none"

\* C15, the failing case: on the Fsm of a valid document with one state the
\* PlantUML generator, or the YAML generator, ended with AttributeError after
\* the lines before the description.
C15_RendererRaises ==
    /\ source = Document(YSeq(<<GoodState>>))
    /\ Returned(outcome)
    /\ ran # <<>>
    /\ ran[Len(ran)].kind \in {"plantuml", "yaml"}
    /\ ran[Len(ran)].exc = "AttributeError"
    /\ OutputOf(ran[Len(ran)].kind) # <<>>
    /\ error.exc = "AttributeError"

\* C17: when a generator writes to a named file, the file handle is closed on
\* every exit path of generate: once generate has returned or raised, the
\* handle it opened is closed, and no handle is ever left open.
C17_HandleClosedOnEveryPath ==
    /\ \A k \in Kinds : handles[k] # "open"
    /\ \A i \in 1..Len(ran) :
        OutputFile(args[ran[i].kind]) # "None" => handles[ran[i].kind] = "closed"

\* C17, its case: the Stateflow generator wrote its file and returned, the
\* YAML generator raised midway through its file, and both handles are closed.
C17_ClosedAfterReturnAndRaise ==
    /\ Len(ran) = 2
    /\ ran[1] = [kind |-> "stateflow", exc |-> "none"]
    /\ ran[2] = [kind |-> "yaml", exc |-> "AttributeError"]
    /\ files["stateflow"] # <<>>
    /\ files["yaml"] # <<>>
    /\ handles["stateflow"] = "closed"
    /\ handles["yaml"] = "closed"

\* The header line that carries the generation timestamp, in the output of a
\* generator of kind.
IsTimestampLine(kind, line) ==
    CASE kind = "plantuml" -> line.kind = "Generated on: {}"
      [] kind = "stateflow" -> line.kind = "%% Generated on: {}"
      [] kind = "yaml" -> line.kind = "comment" /\ line.text \in Times

\* Two outputs of a generator of kind that are the same line by line, the
\* timestamp line apart.
SameButTimestamp(kind, a, b) ==
    /\ Len(a) = Len(b)
    /\ \A n \in 1..Len(a) :
        \/ a[n] = b[n]
        \/ IsTimestampLine(kind, a[n]) /\ IsTimestampLine(kind, b[n])

\* C16: each generator is deterministic in the Fsm: two generate calls on it,
\* on new generator objects or on one object called twice, write outputs that
\* are the same line by line except for the timestamp line of the header.
C16_RenderDeterministic ==
    \A i, j \in 1..Len(previous) :
        previous[i].kind = previous[j].kind =>
            SameButTimestamp(previous[i].kind, previous[i].out, previous[j].out)

\* C16, the failing case: one YAML generator object was called twice on the
\* Fsm; the first call raised with indent_level left at 1, and the second call
\* wrote its lines one level deeper than the first.
C16_SecondCallIndented ==
    /\ Len(previous) >= 2
    /\ previous[1].kind = "yaml" /\ previous[1].call = 1
    /\ previous[2].kind = "yaml" /\ previous[2].call = 2
    /\ previous[1].out[1].ind = 0
    /\ previous[2].out[1].ind = 1

\* The document with every required field and the empty sequence of states.
NoStatesDocument == Document(YSeq(<<>>))

\* An output of the PlantUML generator that is the header and the footer and
\* nothing of a state: it begins with the header comment, has @startuml, has
\* no state comment and no edge, and ends with @enduml.
HeaderAndFooterOnly(out) ==
    /\ out # <<>>
    /\ out[1].kind = "comment_open"
    /\ \E n \in 1..Len(out) : out[n].parts = <<"@startuml">>
    /\ \A n \in 1..Len(out) :
        out[n].kind \notin {" State: {}", "[*] --> {}", "{} --> [*]",
                            "{} --> {} : Condition: {}", "{} : {}"}
    /\ out[Len(out)].parts = <<"@enduml">>

\* C18: for the document whose states is the empty sequence, parse returns an
\* Fsm with no state, and the PlantUML generator's output for it is the header
\* and the footer only.
C18_EmptyStatesRendered ==
    (source = NoStatesDocument /\ pc \notin {"idle", "parse"}) =>
        /\ Returned(outcome)
        /\ outcome.val.states = <<>>
        /\ \A i \in 1..Len(ran) :
            ran[i].kind = "plantuml" =>
                ran[i].exc = "none" /\ HeaderAndFooterOnly(OutputOf("plantuml"))

\* C18, the failing case: parse returned the Fsm with no state, and the
\* PlantUML generator raised in its header, before @startuml and the footer.
C18_HeaderRaises ==
    /\ source = NoStatesDocument
    /\ Returned(outcome)
    /\ outcome.val.states = <<>>
    /\ ran = <<[kind |-> "plantuml", exc |-> "AttributeError"]>>
    /\ OutputOf("plantuml") # <<>>
    /\ ~HeaderAndFooterOnly(OutputOf("plantuml"))

\* The lines of a state's block in the PlantUML output: edges, description
\* and action lines (comments and empty lines apart).
BlockKinds ==
    {"[*] --> {}", "{} --> {} : Condition: {}", "{} --> [*]", "{} : {}",
     "{} : \\nOn entry actions:", "{} : \\nDo actions:", "{} : \\nOn exit actions:"}
BlockLines(out) ==
    LET inblock(line) == line.kind \in BlockKinds IN SelectSeq(out, inblock)

\* The edge of a transition as the block is said to show it: the condition,
\* then description, priority and joined actions, each left out when absent
\* or default.
ExpectedEdge(state, transition) ==
    Line2(0, "{} --> {} : Condition: {}",
        <<Format(state.name), Format(transition.target_state), Format(transition.condition)>>
        \o (IF HasAttr(transition, "description")
               /\ transition.description \notin {PyNone, PyStr(""), PyStr("No description")}
            THEN <<"Description", Format(transition.description)>> ELSE <<>>)
        \o (IF transition.priority \notin {PyNone, PyInt("0")}
            THEN <<"Priority", Format(transition.priority)>> ELSE <<>>)
        \o (IF Truthy(transition.on_transition_actions)
            THEN <<"Actions">> \o Formats(IterItems(transition.on_transition_actions))
            ELSE <<>>))

\* An action block: its header line and one line per action, when the list is
\* not empty.
ExpectedActions(state, attr, header) ==
    IF ~Truthy(state[attr]) THEN <<>>
    ELSE <<Line2(0, header, <<Format(state.name)>>)>>
         \o [n \in 1..Len(IterItems(state[attr])) |->
                Line2(0, "{} : {}", <<Format(state.name), Format(IterItems(state[attr])[n])>>)]

\* The block of a state, in the order said.
ExpectedBlock(state) ==
    (IF Truthy(state.is_initial)
     THEN <<Line2(0, "[*] --> {}", <<Format(state.name)>>)>> ELSE <<>>)
    \o [n \in 1..Len(state.transitions) |-> ExpectedEdge(state, state.transitions[n])]
    \o (IF Truthy(state.is_final)
        THEN <<Line2(0, "{} --> [*]", <<Format(state.name)>>)>> ELSE <<>>)
    \o (IF HasAttr(state, "description")
           /\ state.description \notin {PyNone, PyStr(""), PyStr("No description")}
        THEN <<Line2(0, "{} : {}", <<Format(state.name), Format(state.description)>>)>>
        ELSE <<>>)
    \o ExpectedActions(state, "on_entry_actions", "{} : \\nOn entry actions:")
    \o ExpectedActions(state, "do_actions", "{} : \\nDo actions:")
    \o ExpectedActions(state, "on_exit_actions", "{} : \\nOn exit actions:")

RECURSIVE ExpectedBlocks(_, _)
\* The blocks of the states from the j-th on, in IR order.
ExpectedBlocks(states, j) ==
    IF j > Len(states) THEN <<>>
    ELSE ExpectedBlock(states[j]) \o ExpectedBlocks(states, j + 1)

\* C19: in the PlantUML output the block of each state has, in this order, the
\* edge from [*] iff the state is initial, one edge per transition in IR order
\* with description, priority and actions in its label, the edge to [*] iff
\* the state is final, the description line, and the entry, do and exit
\* action blocks, each present only when its list is not empty.
C19_StateBlocks ==
    \A i \in 1..Len(ran) :
        ran[i].kind = "plantuml" =>
            BlockLines(OutputOf("plantuml")) = ExpectedBlocks(outcome.val.states, 1)

\* C19, the failing case: the Fsm has an initial state with transitions, the
\* PlantUML generator raised in its header, and no line of a state's block
\* is in its output.
C19_NoBlockWritten ==
    /\ Returned(outcome)
    /\ Len(outcome.val.states) = 2
    /\ Truthy(outcome.val.states[1].is_initial)
    /\ outcome.val.states[1].transitions # <<>>
    /\ ran = <<[kind |-> "plantuml", exc |-> "AttributeError"]>>
    /\ BlockLines(OutputOf("plantuml")) = <<>>
    /\ ExpectedBlocks(outcome.val.states, 1) # <<>>

\* The lines of a Stateflow script that bind a transition object and a state
\* object to a variable, in the order written.
TransitionBindings(out) ==
    LET binds(line) == line.kind = "trans_{} = Stateflow.Transition(chartObj);"
    IN  SelectSeq(out, binds)
StateBindings(out) ==
    LET binds(line) == line.kind = "state_{} = Stateflow.State(chartObj);"
    IN  SelectSeq(out, binds)

RECURSIVE CountTransitions(_, _)
\* The transitions of the states from the j-th on.
CountTransitions(states, j) ==
    IF j > Len(states) THEN 0
    ELSE Len(states[j].transitions) + CountTransitions(states, j + 1)

\* C20: in the Stateflow script the k-th transition in enumeration order is
\* bound to trans_k, k = 1, 2, 3, ... without gaps or repeats, as many as the
\* Fsm has transitions; each state is bound to state_<name>; and distinct
\* states of the Fsm are bound to distinct variables.
C20_VariableNames ==
    \A i \in 1..Len(ran) :
        (ran[i].kind = "stateflow" /\ ran[i].exc = "none") =>
            LET out == OutputOf("stateflow")
                states == outcome.val.states
            IN  /\ Len(TransitionBindings(out)) = CountTransitions(states, 1)
                /\ \A k \in 1..Len(TransitionBindings(out)) :
                    TransitionBindings(out)[k].parts = <<ToString(k)>>
                /\ Len(StateBindings(out)) = Len(states)
                /\ \A n \in 1..Len(states) :
                    StateBindings(out)[n].parts = <<Format(states[n].name)>>
                /\ \A m, n \in 1..Len(states) :
                    m # n => StateBindings(out)[m].parts # StateBindings(out)[n].parts

\* C20, the failing case: the Fsm has two states of the name Idle, the script
\* is complete with its transitions bound to trans_1, trans_2, ..., and both
\* states are bound to state_Idle.
C20_TwoStatesOneVariable ==
    /\ Returned(outcome)
    /\ Len(outcome.val.states) = 2
    /\ outcome.val.states[1] # outcome.val.states[2]
    /\ ran # <<>>
    /\ ran[1] = [kind |-> "stateflow", exc |-> "none"]
    /\ Len(TransitionBindings(OutputOf("stateflow"))) = CountTransitions(outcome.val.states, 1)
    /\ CountTransitions(outcome.val.states, 1) > 1
    /\ StateBindings(OutputOf("stateflow"))[1].parts = <<"Idle">>
    /\ StateBindings(OutputOf("stateflow"))[2].parts = <<"Idle">>

\* The lines of the script that set the label of a transition.
TransitionLabels(out) ==
    LET labels(line) == line.kind = "trans_{}.LabelString = '{}';"
    IN  SelectSeq(out, labels)

RECURSIVE AllTransitions(_, _)
\* The transitions of the states from the j-th on, in enumeration order.
AllTransitions(states, j) ==
    IF j > Len(states) THEN <<>>
    ELSE states[j].transitions \o AllTransitions(states, j + 1)

\* The label the k-th transition t is said to have: the bracketed converted
\* condition, then a slash and the action summary if t has actions.
ExpectedLabel(t) ==
    <<"[">> \o _convert_condition(Spell(t.condition.v)) \o <<"]">>
    \o (IF Truthy(t.on_transition_actions)
        THEN <<"/">> \o FormatActionsOf(t.on_transition_actions).items
        ELSE <<>>)

\* C21: in a complete Stateflow script every transition has a label that is
\* the bracketed converted condition, followed by a slash and the action
\* summary when the transition has a non-empty action list: no summary comes
\* without the slash and no transition with a condition comes without guard.
C21_GuardThenSlash ==
    \A i \in 1..Len(ran) :
        (ran[i].kind = "stateflow" /\ ran[i].exc = "none") =>
            LET labels == TransitionLabels(OutputOf("stateflow"))
                ts == AllTransitions(outcome.val.states, 1)
            IN  \A k \in 1..Len(ts) :
                    ts[k].condition.t = "str" =>
                        \E n \in 1..Len(labels) :
                            labels[n].parts = <<ToString(k)>> \o ExpectedLabel(ts[k])

\* C21, the failing case: the script is complete, a transition has the
\* condition "true" and two actions, and its label is the action summary
\* alone, with neither guard nor slash.
C21_SummaryWithoutSlash ==
    /\ Returned(outcome)
    /\ ran # <<>>
    /\ ran[1] = [kind |-> "stateflow", exc |-> "none"]
    /\ \E k \in 1..Len(AllTransitions(outcome.val.states, 1)) :
        /\ AllTransitions(outcome.val.states, 1)[k].condition = PyStr("true")
        /\ Len(IterItems(AllTransitions(outcome.val.states, 1)[k].on_transition_actions)) = 2
        /\ \E n \in 1..Len(TransitionLabels(OutputOf("stateflow"))) :
            TransitionLabels(OutputOf("stateflow"))[n].parts
                = <<ToString(k), "a1", ";", " ", "a2">>

\* Whether the text p occurs in the text s.
Contains(s, p) == \E i \in 1..Len(s) : StartsWithAt(s, p, i)

\* The texts _convert_condition is said to leave none of.
Replaced ==
    {<<"&", "&">>, <<"|", "|">>, <<"T", "r", "u", "e">>, <<"F", "a", "l", "s", "e">>}

\* C22: the result of _convert_condition holds no "&&", "||", "True" or
\* "False", converting the result again changes nothing, and a condition
\* that holds none of the four (one with "==" or plain names) is returned
\* as it is.
C22_ConvertCondition ==
    pc = "converted" =>
        /\ \A p \in Replaced : ~Contains(output, p)
        /\ _convert_condition(output) = output
        /\ (\A p \in Replaced : ~Contains(source, p)) => output = source

\* C22, the failing case: the condition "&&&" was converted and the result is
\* "&&", which the same conversion turns into "&".
C22_AndLeft ==
    /\ pc = "converted"
    /\ source = <<"&", "&", "&">>
    /\ output = <<"&", "&">>
    /\ _convert_condition(output) = <<"&">>

RECURSIVE SplitFrom(_, _, _, _)
\* The segments of s from position i on, cur being the segment begun.
SplitFrom(s, sep, i, cur) ==
    IF i > Len(s) THEN <<cur>>
    ELSE IF StartsWithAt(s, sep, i) THEN <<cur>> \o SplitFrom(s, sep, i + Len(sep), <<>>)
    ELSE SplitFrom(s, sep, i + 1, Append(cur, s[i]))

\* The segments of a summary: the texts between its "; " separators.
Segments(summary) == SplitFrom(summary, <<";", " ">>, 1, <<>>)

\* C23: the summary _format_actions returns for a list of actions has as many
\* segments, separated by "; ", as the list has actions, no segment ends with
\* a semicolon or with whitespace, and the summary of the empty list is the
\* empty string.
C23_FormatActions ==
    pc = "formatted" =>
        /\ source = <<>> => output = <<>>
        /\ source # <<>> => Len(Segments(output)) = Len(source)
        /\ \A n \in 1..Len(Segments(output)) :
            LET segment == Segments(output)[n]
            IN  segment # <<>> => segment[Len(segment)] \notin Whitespace \cup {";"}

\* C23, the failing case: the one action "a;;" was formatted and the summary
\* is "a;", a segment that ends with a semicolon.
C23_SemicolonLeft ==
    /\ pc = "formatted"
    /\ source = << <<"a", ";", ";">> >>
    /\ output = <<"a", ";">>
    /\ Segments(output) = << <<"a", ";">> >>

\* C24: the states of the Fsm parse returns are, one for one and in document
\* order, the mapping elements of the 'states' sequence, the elements that
\* are no mapping being skipped without error; the same holds for the
\* transitions of each state; and a 'states' value that is no sequence is
\* rejected, not taken for an empty list.
C24_MappingElementsInOrder ==
    (/\ pc = "parsed"
     /\ WellPlaced(source)
     /\ FirstMissing(BodyOf(source), FsmRequired) = "") =>
        /\ ~YIsSeq(YValue(BodyOf(source), "states")) => ~Returned(outcome)
        /\ Returned(outcome) =>
            /\ StatesMatch(source, outcome.val)
            /\ \A j \in 1..Len(outcome.val.states) :
                LET s == outcome.val.states[j]
                    m == ItemsUnder(BodyOf(source), "states")[j]
                IN  /\ s.name = ScalarValue(YValue(m, "name"))
                    /\ TransitionsMatch(m, s)
                    /\ \A k \in 1..Len(s.transitions) :
                        LET n == ItemsUnder(m, "transitions")[k] IN
                        /\ s.transitions[k].target_state = ScalarValue(YValue(n, "target_state"))
                        /\ s.transitions[k].condition = ScalarValue(YValue(n, "condition"))
        /\ (impl = "fsmtool" /\ FirstViolation(source) = NoViolation) => Returned(outcome)

\* C24, the failing case: 'states' holds the text none, and parse returns an
\* Fsm without states.
C24_TextTakenForNoStates ==
    /\ Parsed
    /\ source = Stream(<<YMap(<<Field("statemachine", Body(YStr("none")))>>)>>)
    /\ outcome.val.states = <<>>

\* The document without the fsmformat entry of its root.
WithoutFormat(text) ==
    LET kept(entry) == entry[1] # YStr("fsmformat")
    IN  Stream(<<YMap(SelectSeq(Root(text).entries, kept))>> \o Tail(text.docs))

\* C25: after a parse call that returns an Fsm the parser's formatversion is
\* the string form of the document's fsmformat value, or "0.1" when the
\* document has no fsmformat; and the Fsm is the one parse returns for the
\* same document without fsmformat.
C25_FormatRetainedOnly ==
    (Parsed /\ IsDocument(source) /\ YIsMap(Root(source)) /\ DistinctKeys(Root(source))) =>
        /\ formatversion = IF YHasKey(Root(source), "fsmformat")
                           THEN str(ScalarValue(YValue(Root(source), "fsmformat")))
                           ELSE PyStr("0.1")
        /\ Returned(parse_string(impl, formatversion, WithoutFormat(source)).res)
        /\ parse_string(impl, formatversion, WithoutFormat(source)).res.val = outcome.val

\* C25, the failing case: the root holds another mapping, then statemachine,
\* then fsmformat; parse returns the Fsm named Lamp of statemachine, and for
\* the same document without fsmformat it returns the Fsm named Other.
C25_FsmChangesWithFormat ==
    /\ Parsed
    /\ source = Stream(<<FormatLast>>)
    /\ formatversion = PyStr("0.2")
    /\ outcome.val.name = PyStr("Lamp")
    /\ parse_string(impl, formatversion, WithoutFormat(source)).res.val.name = PyStr("Other")

\* C26: in every Fsm parse returns, the name of every state is a string that
\* is not empty; a state whose name key is present with an empty or null
\* value is not among the states.
C26_NamesNonEmpty ==
    Parsed =>
        \A j \in 1..Len(outcome.val.states) :
            /\ outcome.val.states[j].name.t = "str"
            /\ outcome.val.states[j].name.v # ""

\* C26, the failing case: the only state of the document has the key name
\* with a null value, and parse returns an Fsm with a state whose name is
\* None.
C26_NullNameKept ==
    /\ Parsed
    /\ source = Document(YSeq(<<StateNode(YScalar("null", ""), NoNode, <<>>)>>))
    /\ Len(outcome.val.states) = 1
    /\ outcome.val.states[1].name = PyNone

\* C27: on one parser instance, whatever calls came before, the outcome of a
\* parse_string or parse_file call (the Fsm returned or the error raised) is
\* the outcome of the same call on a fresh instance, whose formatversion is
\* None; and the call leaves the parser's class as it was, changing
\* current_file and formatversion only.
C27_OutcomeOfFreshInstance ==
    [][/\ (pc = "idle" /\ pc' = "parsed") =>
            /\ outcome' = IF current_file' = PyStr("<string>")
                          THEN parse_string(impl, PyNone, source').res
                          ELSE parse_file(impl, PyNone, source').res
            /\ impl' = impl
       /\ (pc = "rendered" /\ pc' = "reparsed") =>
            /\ reparsed' = parse_string(impl, PyNone, Compose(output)).res
            /\ impl' = impl]_vars

\* C27, its case: a parser that detected the format version 0.2 in an earlier
\* call was handed an empty stream, raised the error of the empty file and
\* still holds 0.2.
C27_UsedParserCalledAgain ==
    /\ pc = "parsed"
    /\ source = Stream(<<>>)
    /\ formatversion = PyStr("0.2")
    /\ outcome = FSMParseError("Empty FSM file")

\* The lines of the script that create the default transition, and those that
\* set its destination.
DefaultCreations(out) ==
    LET creates(line) == /\ line.kind = "text"
                         /\ line.parts = <<"defaultTrans = Stateflow.Transition(chartObj);">>
    IN  SelectSeq(out, creates)
DefaultDestinations(out) ==
    LET aims(line) == line.kind = "defaultTrans.Destination = state_{};"
    IN  SelectSeq(out, aims)

\* The state variable is assigned by a state-creation line before line n.
DefinedBefore(out, n, name) ==
    \E m \in 1..(n - 1) :
        /\ out[m].kind = "state_{} = Stateflow.State(chartObj);"
        /\ out[m].parts = <<name>>

\* The state variables line n of the script refers to.
StatesUsed(line) ==
    IF line.kind \in {"trans_{}.Source = state_{};", "trans_{}.Destination = state_{};"}
    THEN {line.parts[2]}
    ELSE IF line.kind = "defaultTrans.Destination = state_{};" THEN {line.parts[1]}
    ELSE {}

\* C28: a complete Stateflow script has exactly one default transition, its
\* destination is the variable of the state fsm.initial_state, and every
\* state variable used as the source or destination of a transition or as
\* the destination of the default transition is assigned by a state-creation
\* line earlier in the script.
C28_DefineBeforeUse ==
    \A i \in 1..Len(ran) :
        (ran[i].kind = "stateflow" /\ ran[i].exc = "none") =>
            LET out == OutputOf("stateflow") IN
            /\ Len(DefaultCreations(out)) = 1
            /\ Len(DefaultDestinations(out)) = 1
            /\ DefaultDestinations(out)[1].parts = <<Format(outcome.val.initial_state)>>
            /\ \A n \in 1..Len(out) :
                \A name \in StatesUsed(out[n]) : DefinedBefore(out, n, name)

\* C28, the failing case: the Fsm has the initial_state Idle and no state, the
\* script is complete, its default transition has state_Idle as destination,
\* and no line of the script creates a state.
C28_DestinationNeverCreated ==
    /\ Returned(outcome)
    /\ outcome.val.states = <<>>
    /\ ran # <<>>
    /\ ran[1] = [kind |-> "stateflow", exc |-> "none"]
    /\ Len(DefaultDestinations(OutputOf("stateflow"))) = 1
    /\ DefaultDestinations(OutputOf("stateflow"))[1].parts = <<"Idle">>
    /\ StateBindings(OutputOf("stateflow")) = <<>>

\* C29: in a generate call of any of the three generators indent_level is
\* never negative, neither when a line is written nor at the end; it is 0
\* when the call returns normally; and a call that follows a call of the same
\* instance that returned normally begins and ends with lines that are not
\* indented.
C29_IndentationBalanced ==
    [][Len(previous') = Len(previous) + 1 =>
        /\ indent_level' >= 0
        /\ \A n \in 1..Len(output') : output'[n].ind >= 0
        /\ Returned(gen') => indent_level' = 0
        /\ (generator.calls > 0 /\ Returned(gen) /\ Returned(gen')) =>
            /\ output'[1].ind = 0
            /\ output'[Len(output')].ind = 0]_vars

\* C29, the failing case: one YAML generator was called twice, the second
\* time on an Fsm that has the attribute description; the second call
\* returned normally, every line of it is indented, and indent_level is 1.
C29_ReturnedIndented ==
    /\ generator = [kind |-> "yaml", calls |-> 2]
    /\ HasAttr(outcome.val, "description")
    /\ Returned(gen)
    /\ indent_level = 1
    /\ output # <<>>
    /\ \A n \in 1..Len(output) : output[n].ind >= 1

\* The outcome of the call the caller just made, had the parser been the
\* FSMParser of the module i.
OutcomeOf(i) ==
    IF current_file = PyStr("<string>")
    THEN parse_string(i, PyNone, source).res
    ELSE parse_file(i, PyNone, source).res

\* C30: on every input the FSMParser of fsmparser.py and the one of
\* fsmtool.py have the same outcome: both raise an error of the same message,
\* or both return an Fsm, the two equal field by field.
C30_ParsersEquivalent ==
    pc = "parsed" =>
        /\ Returned(OutcomeOf("fsmparser")) <=> Returned(OutcomeOf("fsmtool"))
        /\ OutcomeOf("fsmparser").exc = OutcomeOf("fsmtool").exc
        /\ OutcomeOf("fsmparser").msg = OutcomeOf("fsmtool").msg
        /\ Returned(OutcomeOf("fsmtool")) => OutcomeOf("fsmparser").val = OutcomeOf("fsmtool").val

\* C30, the failing case: on the document of one state the parser of
\* fsmtool.py returned an Fsm, and the parser of fsmparser.py raises
\* TypeError.
C30_OneReturnsOneRaises ==
    /\ pc = "parsed"
    /\ impl = "fsmtool"
    /\ source = Document(YSeq(<<GoodState>>))
    /\ Returned(outcome)
    /\ outcome = OutcomeOf("fsmtool")
    /\ OutcomeOf("fsmparser").exc = "TypeError"

====
